---------------------------- MODULE Spec2Model ----------------------------
(***************************************************************************)
(* A model of freeport (fp): the termination controller of `kill`          *)
(* (src/cmd/kill.go) running against an operating system whose listening   *)
(* sockets and processes change under it, and the port allocator of `run`  *)
(* and `pick` (src/unnamed/part_008, src/internal/ports/ports.go) run by   *)
(* several invocations at once.                                            *)
(*                                                                         *)
(* Time is counted in milliseconds and passes in the sleeps of the wait     *)
(* loop.  Users are strings; the empty string                              *)
(* is the User field of a record whose owner the tool did not report.      *)
(***************************************************************************)
EXTENDS Integers, Sequences, FiniteSets, TLC

\* ------------------------------------------------------------------ bounds
MaxPid == 2           \* process ids 1..MaxPid
MaxSocks == 2         \* listening sockets the discovery tool lists at once
MaxTimeoutSteps == 2  \* --timeout is 0, TimeoutStepMs, ... MaxTimeoutSteps * TimeoutStepMs
TimeoutStepMs == 100
MaxExt == 1           \* external events while kill runs
MaxInv == 2           \* invocations of run and pick at once
MaxPort == 2          \* the ports 1..MaxPort can be candidates
MaxPrefer == 2        \* entries of --prefer
MaxRecs == 2          \* records a discovery of list returns
MaxFields == 5        \* fields of the one line a parser is given
MaxLines == 3         \* lines of a listing a parser is given

\* ---------------------------------------------------------------- constants
PollIntervalMs == 150 \* time.Sleep(150 * time.Millisecond)
CheckIntervalMs == 200 \* time.Sleep(200 * time.Millisecond)
KillPort == 3000      \* the <port> argument of kill
OtherPort == 3001     \* a port kill was not asked about
MaxPortNumber == 65535

Pids == 1..MaxPid
Caller == "alice"
NoUser == "?"         \* user.Current() returned nil
Signals == {"TERM", "INT", "KILL"}
ChildCodes == {0, 1, 2}  \* the child of run succeeds, or fails with one code or another
Timeouts == {k * TimeoutStepMs : k \in 0..MaxTimeoutSteps}

\* The user owning process pid: the caller owns the odd pids.
OwnerOf(pid) == IF pid % 2 = 1 THEN Caller ELSE "bob"

VARIABLES
    \* the operating system
    socks,      \* the listening sockets in the order the tool lists them: [port, pid]; pid 0: not reported
    alive,      \* the pids of the running processes
    pending,    \* <<pid, sig>>: signals delivered to running processes
    now,        \* the clock
    extEvents,  \* how many external events (not caused by kill) have happened
    tool,       \* the discovery tool found in PATH: "lsof" or "ss", or "none"
    toolHangs,  \* the discovery tool, once started, never writes and never exits
    current,    \* user.Current(): the caller's name, or NoUser
    \* kill's flags
    killForce, killSignal, killTimeout, killDryRun,
    \* kill's locals
    kpc,        \* where RunE is: start, signal, wait, escalate, done
    listeners,  \* the result of the discovery of line 42
    targets,    \* the resolved targets
    kidx,       \* the index of the next target in the loop that is running
    signaled,   \* the counter of line 93
    deadline,   \* line 106
    \* what kill did
    sent,       \* every syscall.Kill made: [pid, sig, at, res, esc]
    polls,      \* every poll of the wait loop: [at, listening]
    exit,       \* the exit code, -1 while running
    report,     \* the payload: status and the fields of its kind, or NoReport
    \* the allocator: arguments shared by the invocations
    prefer,     \* --prefer
    r,          \* --range, parsed: [Start, End]
    kind,       \* per invocation: "run" (PickAndLockTCPPort) or "pick" (PickTCPPort)
    \* the state shared by the invocations
    lockHolder, \* per port: the invocation holding the flock of <port>.lock, or 0
    probeSock,  \* per port: the invocation whose probe socket listens on it, or 0
    extBound,   \* the ports other processes listen on
    extLocked,  \* the ports whose lock an fp invocation outside the model holds
    lockFile,   \* the ports whose <port>.lock file exists in the lock directory
    \* per invocation
    apc,        \* off (not invoked), lock, listen, close, child, done
    cur,        \* the loop position: [ph, i], a --prefer index or a port of the range
    result,     \* the port returned, or 0
    err,        \* the error RunE returns: "", "usage", "range", "nofree", "write", "exit" (the child
                \* failed), or "killed": the run process was killed
    childPort,  \* the port exported to the child, or 0
    childCode,  \* the exit code of the child, -1 while there is none
    attempts,   \* the candidates that failed, in order: [port, why, free]
    \* the command line, and check
    argv,       \* the arguments as typed: [cmd, port, signal, range, dash], texts not yet parsed;
                \* dash: "absent" (no --), "last" (nothing after --) or "before" (a command after --)
    cpc,        \* where check is: off (not invoked), args, poll, done
    checkWait,  \* --wait
    checkDeadline, \* part_006 63
    checkPolls, \* every discovery check made that returned a listing: [at, inUse]
    checkExit,  \* the exit code of check, -1 while running
    \* list
    inPath,     \* the tools exec.LookPath finds, of lsof, ss and ps
    toolFails,  \* the discovery tool cannot be started, or its output cannot be read
    toolRecs,   \* the records the adapter parses from the tool's output, in its order
    procState,  \* per pid: "ok", "gone" (the process has exited) or "refused" (/proc says no)
    listPort, listFilter, listUnique, listVerbose,  \* --port, [filter] as typed, --unique, --verbose
    lpc,        \* where list is: off, discover, port, filter, unique, sort, output, done;
                \* who: the command is who, about to run
    listed,     \* the slice listeners of listCmd.RunE
    spawned,    \* the child processes list has started, in order
    listErr,    \* the error RunE returned: "", "usage", "notool", "tool", "write"
    listOut,    \* the records written
    \* the adapters' parsers
    toolOut,    \* the output of a discovery tool: its lines, [fields, long]
    ppc,        \* off, raw, parsed, resolved
    parsed,     \* the result of the parser: [adapter, ok, recs]
    \* standard output
    jsonOutput, \* --json
    stdoutFails, \* a write to standard output can fail: the disk is full, the reader is gone
    written     \* every write to standard output, in order: [cmd, inv, kind, whole]

osVars == <<socks, alive, pending, now, extEvents, tool, toolHangs, current>>
killFlags == <<killForce, killSignal, killTimeout, killDryRun>>
killLocals == <<kpc, listeners, targets, kidx, signaled, deadline>>
killHist == <<sent, polls, exit, report>>
killVars == <<osVars, killFlags, killLocals, killHist>>
allocArgs == <<prefer, r, kind>>
allocShared == <<lockHolder, probeSock, extBound, extLocked, lockFile>>
allocLocals == <<apc, cur, result, err, childPort, childCode, attempts>>
allocVars == <<allocArgs, allocShared, allocLocals>>
checkVars == <<argv, cpc, checkWait, checkDeadline, checkPolls, checkExit>>
listEnv == <<inPath, toolFails, toolRecs, procState>>
listFlags == <<listPort, listFilter, listUnique, listVerbose>>
listLocals == <<lpc, listed, spawned, listErr, listOut>>
listVars == <<listEnv, listFlags, listLocals>>
outVars == <<jsonOutput, stdoutFails, written>>
parseVars == <<toolOut, ppc, parsed>>
scanVars == <<listVars, parseVars>>

NoReport == [status |-> "none"]

\* ------------------------------------------------------------ sequences
Elems(s) == {s[i] : i \in DOMAIN s}

\* All sequences over S of length at most n.
SeqsUpTo(S, n) == UNION {[1..k -> S] : k \in 0..n}

\* ----------------------------------------------------------------- text
\* A text is the sequence of its characters.
DigitChars == <<"0", "1", "2", "3", "4", "5", "6", "7", "8", "9">>
LowerChars == <<"a", "b", "c", "d", "e", "f", "g", "h", "i", "j", "k", "l", "m", "n", "o", "p", "q", "r", "s", "t", "u", "v", "w", "x", "y", "z">>
UpperChars == <<"A", "B", "C", "D", "E", "F", "G", "H", "I", "J", "K", "L", "M", "N", "O", "P", "Q", "R", "S", "T", "U", "V", "W", "X", "Y", "Z">>
SpaceChars == {" ", "\t"}

\* Tokens the parsers look for.
TokLISTEN == <<"(", "L", "I", "S", "T", "E", "N", ")">>
TokCOMMAND == <<"C", "O", "M", "M", "A", "N", "D">>
TokUsers == <<"u", "s", "e", "r", "s", ":">>
TokPid == <<"p", "i", "d", "=">>

IndexIn(c, chars) == CHOOSE k \in DOMAIN chars : chars[k] = c

IsDigit(c) == \E k \in DOMAIN DigitChars : DigitChars[k] = c

RECURSIVE DigitsValue(_)
\* The number a text of decimal digits writes.
DigitsValue(t) ==
    IF t = <<>> THEN 0
    ELSE 10 * DigitsValue(SubSeq(t, 1, Len(t) - 1)) + (IndexIn(t[Len(t)], DigitChars) - 1)

\* strconv.Atoi: an optional sign and then one digit or more, nothing else.
Atoi(t) ==
    LET signed == t # <<>> /\ t[1] \in {"+", "-"}
        ds == IF signed THEN Tail(t) ELSE t
    IN IF ds = <<>> \/ \E k \in DOMAIN ds : ~IsDigit(ds[k])
       THEN [ok |-> FALSE, val |-> 0]
       ELSE [ok |-> TRUE,
             val |-> IF signed /\ t[1] = "-" THEN 0 - DigitsValue(ds) ELSE DigitsValue(ds)]

RECURSIVE TrimLeft(_)
TrimLeft(t) == IF t # <<>> /\ t[1] \in SpaceChars THEN TrimLeft(Tail(t)) ELSE t

RECURSIVE TrimRight(_)
TrimRight(t) ==
    IF t # <<>> /\ t[Len(t)] \in SpaceChars THEN TrimRight(SubSeq(t, 1, Len(t) - 1)) ELSE t

\* strings.TrimSpace.
TrimSpace(t) == TrimRight(TrimLeft(t))

\* strings.ToUpper.
ToUpper(t) ==
    [k \in DOMAIN t |->
        IF \E j \in DOMAIN LowerChars : LowerChars[j] = t[k]
        THEN UpperChars[IndexIn(t[k], LowerChars)] ELSE t[k]]

\* strings.ToLower.
ToLower(t) ==
    [k \in DOMAIN t |->
        IF \E j \in DOMAIN UpperChars : UpperChars[j] = t[k]
        THEN LowerChars[IndexIn(t[k], UpperChars)] ELSE t[k]]

\* strings.Contains.
Contains(t, sub) ==
    \E k \in 0..(Len(t) - Len(sub)) : SubSeq(t, k + 1, k + Len(sub)) = sub

RECURSIVE Split(_, _)
\* strings.Split(t, sep) for a separator of one character.
Split(t, sep) ==
    IF \A k \in DOMAIN t : t[k] # sep THEN <<t>>
    ELSE LET k == CHOOSE i \in DOMAIN t : t[i] = sep /\ \A j \in 1..(i - 1) : t[j] # sep
         IN <<SubSeq(t, 1, k - 1)>> \o Split(SubSeq(t, k + 1, Len(t)), sep)

ParsePortUnbounded(t) == Atoi(t)

\* kill.go 32-35, part_006 21-25: the <port> argument is a number in 1..65535.
ParsePort(t) ==
    LET a == Atoi(t) IN
    IF ~a.ok \/ a.val < 1 \/ a.val > MaxPortNumber THEN [ok |-> FALSE, val |-> 0] ELSE a

\* kill.go 153-164: parseSignal.
parseSignal(t) ==
    LET u == ToUpper(TrimSpace(t)) IN
    IF u \in {<<"T", "E", "R", "M">>, <<"S", "I", "G", "T", "E", "R", "M">>} THEN [ok |-> TRUE, sig |-> "TERM"]
    ELSE IF u \in {<<"I", "N", "T">>, <<"S", "I", "G", "I", "N", "T">>} THEN [ok |-> TRUE, sig |-> "INT"]
    ELSE IF u \in {<<"K", "I", "L", "L">>, <<"S", "I", "G", "K", "I", "L", "L">>} THEN [ok |-> TRUE, sig |-> "KILL"]
    ELSE [ok |-> FALSE, sig |-> ""]

ParseRangeAnyOrder(t) ==
    LET parts == Split(TrimSpace(t), "-")
        bad == [ok |-> FALSE, Start |-> 0, End |-> 0]
    IN IF Len(parts) # 2 THEN bad
       ELSE LET start == Atoi(TrimSpace(parts[1]))
                end == Atoi(TrimSpace(parts[2]))
            IN IF ~start.ok THEN bad
               ELSE IF ~end.ok THEN bad
               ELSE IF start.val < 1 \/ end.val > MaxPortNumber THEN bad
               ELSE [ok |-> TRUE, Start |-> start.val, End |-> end.val]

\* ports.go 15-32: ParseRange.
ParseRange(t) ==
    LET parts == Split(TrimSpace(t), "-")
        bad == [ok |-> FALSE, Start |-> 0, End |-> 0]
    IN IF Len(parts) # 2 THEN bad
       ELSE LET start == Atoi(TrimSpace(parts[1]))
                end == Atoi(TrimSpace(parts[2]))
            IN IF ~start.ok THEN bad
               ELSE IF ~end.ok THEN bad
               ELSE IF start.val < 1 \/ end.val > MaxPortNumber \/ start.val > end.val THEN bad
               ELSE [ok |-> TRUE, Start |-> start.val, End |-> end.val]

\* ------------------------------------------------------------- discovery
\* One record of the lsof adapter: it reports the user column.
LsofRecord(s) ==
    [Port |-> s.port, PID |-> s.pid,
     User |-> IF s.pid > 0 THEN OwnerOf(s.pid) ELSE ""]

\* One record of the ss adapter: it sets no User.
SSRecord(s) == [Port |-> s.port, PID |-> s.pid, User |-> ""]

\* scan.ListTCPListeners: the records of the first tool found, lsof before ss.
ListTCPListeners ==
    IF tool = "lsof" THEN [i \in DOMAIN socks |-> LsofRecord(socks[i])]
    ELSE [i \in DOMAIN socks |-> SSRecord(socks[i])]

\* part_009 28: neither tool is in PATH, and the discovery returns an error.
DiscoveryFails == tool = "none"

\* The discovery returns: the tool it started exits (lsof.go 21-23 and ss.go
\* 27-29 read its output to the end and wait for it), or none was started.
DiscoveryReturns == DiscoveryFails \/ ~toolHangs

\* scan.HasTCPListenerOnPort over a discovery result.
HasTCPListenerOnPort(ls, port) == \E i \in DOMAIN ls : ls[i].Port = port


\* ------------------------------------------------------------------ kill
RECURSIVE ResolveFrom(_, _, _)
\* kill.go 47-58: the records of ls on the port with a pid > 0 not seen before,
\* in the order of ls.
ResolveFrom(ls, port, seen) ==
    IF ls = <<>> THEN <<>>
    ELSE LET l == Head(ls) IN
         IF l.Port # port THEN ResolveFrom(Tail(ls), port, seen)
         ELSE IF l.PID <= 0 \/ l.PID \in seen THEN ResolveFrom(Tail(ls), port, seen)
         ELSE <<l>> \o ResolveFrom(Tail(ls), port, seen \cup {l.PID})

ResolveTargets(ls, port) == ResolveFrom(ls, port, {})

\* kill.go 72-77: some target makes the ownership check refuse.
OwnershipDeniedFirstOnly(ts) ==
    /\ ts # <<>>
    /\ ~killForce /\ current # NoUser /\ ts[1].User # "" /\ ts[1].User # current

OwnershipDenied(ts) ==
    \E i \in DOMAIN ts :
        ~killForce /\ current # NoUser /\ ts[i].User # "" /\ ts[i].User # current

\* kill.go 60-91: what follows target resolution.
ResolveBranchDryRunFirst(ts) ==
    IF killDryRun THEN "dry-run"
    ELSE IF ts = <<>> THEN "idle"
    ELSE IF OwnershipDenied(ts) THEN "denied"
    ELSE "signal"

ResolveBranchNoDryRun(ts) ==
    IF ts = <<>> THEN "idle"
    ELSE IF OwnershipDenied(ts) THEN "denied"
    ELSE "signal"

ResolveBranch(ts) ==
    IF ts = <<>> THEN "idle"
    ELSE IF OwnershipDenied(ts) THEN "denied"
    ELSE IF killDryRun THEN "dry-run"
    ELSE "signal"

\* kill.go 105: the wait loop is entered.
ShouldWaitAnySignal == killTimeout > 0

ShouldWait == killTimeout > 0 /\ killSignal # "KILL"

\* kill.go 107: the loop condition time.Now().Before(deadline) is false.
DeadlinePassedAfterOnePoll == polls # <<>>

DeadlinePassed == ~(now < deadline)

\* kill.go 127: the targets the escalation loop ranges over.
EscalationTargetsFresh == ResolveTargets(ListTCPListeners, KillPort)

EscalationTargets == targets

\* The outcomes syscall.Kill(pid, sig) can have: ESRCH when no such process
\* runs; the kernel may refuse (EPERM) a signal to another user's process.
KillOutcomes(pid) ==
    IF pid \notin alive THEN {"ESRCH"}
    ELSE IF OwnerOf(pid) = Caller THEN {"ok"}
    ELSE {"ok", "EPERM"}

\* syscall.Kill(pid, sig) with outcome res, sent as part of the escalation or not.
SysKill(pid, sig, res, esc) ==
    /\ sent' = Append(sent, [pid |-> pid, sig |-> sig, at |-> now, res |-> res, esc |-> esc])
    /\ pending' = IF res = "ok" THEN pending \cup {<<pid, sig>>} ELSE pending

\* kill.go 114-120 and 133-138: the payload of a kill that signaled; its
\* signal is the one chosen with --signal.
Payload(status) ==
    [status |-> status, signaled |-> signaled, signal |-> killSignal]

\* kill.go 96-101: the error of syscall.Kill ends the command.
SendFailsOnAnyError(res) == res # "ok"

SendFails(res) == res \notin {"ok", "ESRCH"}

\* One line printed to standard output by a command; no error of the write
\* is looked at.
Line(cmd, what) == [cmd |-> cmd, inv |-> 0, kind |-> what, whole |-> TRUE]

\* The outcomes of the write of a payload: it is written whole, or the write
\* fails after a part of it, or none of it, was written.
WriteOutcomes == IF stdoutFails THEN {"whole", "part", "none"} ELSE {"whole"}

WriteFailedNever(o) == FALSE

\* part_009 47-49: Encode returned an error, and WriteJSON returns it.
WriteFailed(o) == o # "whole"

\* part_009 44-51: what WriteJSON with outcome o leaves on standard output.
JSONWritten(cmd, inv, o) ==
    IF o = "none" THEN <<>>
    ELSE <<[cmd |-> cmd, inv |-> inv, kind |-> "json", whole |-> (o = "whole")]>>

\* kill.go 60-70, 79-91, 113-123 and 132-141: kill ends with the payload pl,
\* after the lines pre of this step: with --json WriteJSON writes the payload
\* and its error is returned; without, the lines texts are printed.
KillEnd(pl, pre, texts) ==
    /\ kpc' = "done"
    /\ IF jsonOutput
       THEN \E o \in WriteOutcomes :
               /\ written' = written \o pre \o JSONWritten("kill", 0, o)
               /\ exit' = IF WriteFailed(o) THEN 1 ELSE 0
               /\ report' = IF o = "whole" THEN pl ELSE NoReport
       ELSE /\ written' = written \o pre \o texts
            /\ exit' = 0
            /\ report' = pl

\* kill.go 32-39: the port argument and then --signal are parsed; an error
\* of either is returned, and the command exits 1.
KillArgs ==
    /\ kpc = "args"
    /\ IF ~ParsePort(argv.port).ok \/ ~parseSignal(argv.signal).ok
       THEN /\ kpc' = "done" /\ exit' = 1
            /\ UNCHANGED killSignal
       ELSE /\ kpc' = "start"
            /\ killSignal' = parseSignal(argv.signal).sig
            /\ UNCHANGED exit
    /\ UNCHANGED <<osVars, killForce, killTimeout, killDryRun>>
    /\ UNCHANGED <<listeners, targets, kidx, signaled, deadline, sent, polls, report>>
    /\ UNCHANGED <<allocVars, checkVars, scanVars, outVars>>

\* kill.go 42-91: discovery, target resolution, the idle exit, the ownership
\* check and the dry-run exit.
KillResolve ==
    /\ kpc = "start"
    /\ DiscoveryReturns
    /\ IF DiscoveryFails
       THEN /\ kpc' = "done" /\ exit' = 1
            /\ UNCHANGED <<listeners, targets, report, written>>
       ELSE
       LET ls == ListTCPListeners
           ts == ResolveTargets(ls, KillPort)
       IN /\ listeners' = ls
          /\ targets' = ts
          /\ LET b == ResolveBranch(ts) IN
             IF b = "idle"
             THEN KillEnd([status |-> "idle", signaled |-> 0], <<>>, <<Line("kill", "text")>>)
             ELSE IF b = "denied"
             THEN kpc' = "done" /\ exit' = 1 /\ report' = NoReport /\ written' = written
             ELSE IF b = "dry-run"
             THEN KillEnd([status |-> "dry-run", targets |-> ts], <<>>,
                          [k \in DOMAIN ts |-> Line("kill", "text")])
             ELSE kpc' = "signal" /\ exit' = exit /\ report' = report /\ written' = written
    /\ kidx' = 1
    /\ UNCHANGED <<osVars, killFlags, signaled, deadline, sent, polls>>
    /\ UNCHANGED <<allocVars, checkVars, scanVars, jsonOutput, stdoutFails>>

\* kill.go 95: the message printed before each signal, --json or not.
KillProgress == <<Line("kill", "progress")>>

\* kill.go 126: the message printed before the escalation, --json or not.
KillEscalation == <<Line("kill", "escalation")>>

\* kill.go 93-105: one turn of the signal loop, and what follows its last turn.
KillSignal ==
    /\ kpc = "signal"
    /\ LET t == targets[kidx] IN
       \E res \in KillOutcomes(t.PID) :
          /\ SysKill(t.PID, killSignal, res, FALSE)
          /\ IF SendFails(res)
             THEN /\ kpc' = "done" /\ exit' = 1
                  /\ written' = written \o KillProgress
                  /\ UNCHANGED <<kidx, signaled, deadline, report>>
             ELSE LET n == IF res = "ok" THEN signaled + 1 ELSE signaled IN
                  /\ signaled' = n
                  /\ kidx' = IF kidx < Len(targets) THEN kidx + 1 ELSE 1
                  /\ IF kidx < Len(targets)
                     THEN /\ written' = written \o KillProgress
                          /\ UNCHANGED <<kpc, deadline, exit, report>>
                     ELSE IF ShouldWait
                     THEN /\ kpc' = "wait" /\ deadline' = now + killTimeout
                          /\ written' = written \o KillProgress
                          /\ UNCHANGED <<exit, report>>
                     ELSE /\ KillEnd([Payload("signaled") EXCEPT !.signaled = n],
                                     KillProgress, <<>>)
                          /\ UNCHANGED deadline
    /\ UNCHANGED <<socks, alive, now, extEvents, tool, toolHangs, current, killFlags,
                   listeners, targets, polls>>
    /\ UNCHANGED <<allocVars, checkVars, scanVars, jsonOutput, stdoutFails>>

\* kill.go 107-125: one turn of the wait loop (sleep, then poll), or its end
\* at the deadline.
KillPoll ==
    /\ kpc = "wait"
    /\ DeadlinePassed \/ DiscoveryReturns
    /\ IF ~DeadlinePassed
       THEN LET t == now + PollIntervalMs
                still == HasTCPListenerOnPort(ListTCPListeners, KillPort)
            IN /\ now' = t
               /\ polls' = Append(polls, [at |-> t, listening |-> still])
               /\ IF still
                  THEN UNCHANGED <<kpc, exit, report, written>>
                  ELSE KillEnd(Payload("signaled"), <<>>, <<>>)
       ELSE /\ kpc' = "escalate"
            /\ written' = written \o KillEscalation
            /\ UNCHANGED <<now, polls, exit, report>>
    /\ UNCHANGED <<socks, alive, pending, extEvents, tool, toolHangs, current, killFlags,
                   listeners, targets, kidx, signaled, deadline, sent>>
    /\ UNCHANGED <<allocVars, checkVars, scanVars, jsonOutput, stdoutFails>>

\* kill.go 126-141: one turn of the SIGKILL loop, its result ignored, and the
\* final payload after its last turn.
KillEscalate ==
    /\ kpc = "escalate"
    /\ LET ts == EscalationTargets IN
       /\ IF kidx <= Len(ts)
          THEN \E res \in KillOutcomes(ts[kidx].PID) : SysKill(ts[kidx].PID, "KILL", res, TRUE)
          ELSE UNCHANGED <<sent, pending>>
       /\ IF kidx < Len(ts)
          THEN kidx' = kidx + 1 /\ UNCHANGED <<kpc, exit, report, written>>
          ELSE kidx' = 1 /\ KillEnd(Payload("signaled"), <<>>, <<>>)
    /\ UNCHANGED <<socks, alive, now, extEvents, tool, toolHangs, current, killFlags,
                   listeners, targets, signaled, deadline, polls>>
    /\ UNCHANGED <<allocVars, checkVars, scanVars, jsonOutput, stdoutFails>>

\* ------------------------------------------------- the operating system
\* External events are taken while kill runs between its discovery and its
\* end, or while check polls: one before the discovery is a different
\* initial listing.  A new listener is taken during the wait, where the
\* polls can see it.
\* A process that was sent a signal dies of it and its sockets close.
SignalDeath(pid) ==
    /\ pid \in alive
    /\ \E sg \in Signals : <<pid, sg>> \in pending
    /\ alive' = alive \ {pid}
    /\ socks' = SelectSeq(socks, LAMBDA s : s.pid # pid)
    /\ pending' = {x \in pending : x[1] # pid}
    /\ UNCHANGED <<now, extEvents, tool, toolHangs, current, killFlags, killLocals, killHist>>
    /\ UNCHANGED <<allocVars, checkVars, scanVars, outVars>>

\* External event: a process exits for a reason of its own.
ExtExit(pid) ==
    /\ kpc \notin {"start", "done"} \/ cpc = "poll"
    /\ extEvents < MaxExt
    /\ pid \in alive
    /\ alive' = alive \ {pid}
    /\ socks' = SelectSeq(socks, LAMBDA s : s.pid # pid)
    /\ pending' = {x \in pending : x[1] # pid}
    /\ extEvents' = extEvents + 1
    /\ UNCHANGED <<now, tool, toolHangs, current, killFlags, killLocals, killHist>>
    /\ UNCHANGED <<allocVars, checkVars, scanVars, outVars>>

\* External event: a process that was not running starts to listen on the port.
ExtListen(pid) ==
    /\ kpc = "wait" \/ cpc = "poll"
    /\ pid \notin alive
    /\ extEvents < MaxExt
    /\ Len(socks) < MaxSocks
    /\ alive' = alive \cup {pid}
    /\ socks' = Append(socks, [port |-> KillPort, pid |-> pid])
    /\ extEvents' = extEvents + 1
    /\ UNCHANGED <<pending, now, tool, toolHangs, current, killFlags, killLocals, killHist>>
    /\ UNCHANGED <<allocVars, checkVars, scanVars, outVars>>

\* ------------------------------------------------------ idle subsystems
Invs == 1..MaxInv
Ports == 1..MaxPort

\* No run or pick is invoked.
AllocQuiet ==
    /\ prefer = <<>>
    /\ r = [Start |-> 1, End |-> 1]
    /\ kind = [i \in Invs |-> "pick"]
    /\ lockHolder = [p \in Ports |-> 0]
    /\ probeSock = [p \in Ports |-> 0]
    /\ extBound = {}
    /\ extLocked = {}
    /\ lockFile = {}
    /\ apc = [i \in Invs |-> "off"]
    /\ cur = [i \in Invs |-> [ph |-> "prefer", i |-> 1]]
    /\ result = [i \in Invs |-> 0]
    /\ err = [i \in Invs |-> ""]
    /\ childPort = [i \in Invs |-> 0]
    /\ childCode = [i \in Invs |-> -1]
    /\ attempts = [i \in Invs |-> <<>>]

\* The arguments of no command.
NoArgv == [cmd |-> "none", port |-> <<>>, signal |-> <<>>, range |-> <<>>, dash |-> "absent"]

\* No check is invoked.
CheckQuiet ==
    /\ argv = NoArgv
    /\ cpc = "off" /\ checkWait = 0 /\ checkDeadline = 0
    /\ checkPolls = <<>> /\ checkExit = -1

\* Nothing listens and nothing changes.
OsQuiet ==
    /\ socks = <<>> /\ alive = {} /\ pending = {} /\ now = 0 /\ extEvents = 0
    /\ tool = "lsof" /\ toolHangs = FALSE /\ current = Caller

\* kill has nothing to do.
KillIdle ==
    /\ killForce = FALSE /\ killSignal = "TERM" /\ killTimeout = 0 /\ killDryRun = FALSE
    /\ kpc = "done" /\ listeners = <<>> /\ targets = <<>> /\ kidx = 1
    /\ signaled = 0 /\ deadline = 0
    /\ sent = <<>> /\ polls = <<>> /\ exit = 0 /\ report = NoReport

\* No kill is invoked.
KillQuiet == OsQuiet /\ KillIdle

\* The result of no parse.
NoParse == [adapter |-> "none", ok |-> TRUE, recs |-> <<>>]

\* No list is invoked and no output is parsed.
ScanQuiet ==
    /\ inPath = {tool} \ {"none"}
    /\ toolFails = FALSE /\ toolRecs = <<>>
    /\ procState = [pid \in Pids |-> "ok"]
    /\ listPort = 0 /\ listFilter = <<>> /\ listUnique = FALSE /\ listVerbose = FALSE
    /\ lpc = "off" /\ listed = <<>> /\ spawned = <<>> /\ listErr = "" /\ listOut = <<>>
    /\ toolOut = <<>> /\ ppc = "off" /\ parsed = NoParse

\* Nothing was written; no --json, and standard output takes every write.
OutQuiet == jsonOutput = FALSE /\ stdoutFails = FALSE /\ written = <<>>

\* ------------------------------------------------------- specification
\* The sockets of the initial listing: any pid (0: not reported) on the port,
\* and process 1 listening on another port.
SockChoices == [port : {KillPort}, pid : 0..MaxPid] \cup {[port |-> OtherPort, pid |-> 1]}

KillInit ==
    /\ socks \in SeqsUpTo(SockChoices, MaxSocks)
    /\ alive = {socks[i].pid : i \in DOMAIN socks} \ {0}
    /\ pending = {}
    /\ now = 0
    /\ extEvents = 0
    /\ tool \in {"lsof", "ss", "none"}
    /\ toolHangs \in (IF tool = "none" THEN {FALSE} ELSE BOOLEAN)
    /\ current \in {Caller, NoUser}
    /\ killForce \in BOOLEAN
    /\ killSignal \in Signals
    /\ killTimeout \in Timeouts
    /\ killDryRun \in BOOLEAN
    /\ kpc = "start"
    /\ listeners = <<>>
    /\ targets = <<>>
    /\ kidx = 1
    /\ signaled = 0
    /\ deadline = 0
    /\ sent = <<>>
    /\ polls = <<>>
    /\ exit = -1
    /\ report = NoReport
    /\ AllocQuiet
    /\ CheckQuiet
    /\ ScanQuiet
    /\ OutQuiet

KillNext ==
    \/ KillResolve
    \/ KillSignal
    \/ KillPoll
    \/ KillEscalate
    \/ \E pid \in Pids : SignalDeath(pid)
    \/ \E pid \in Pids : ExtExit(pid)
    \/ \E pid \in Pids : ExtListen(pid)

vars == <<killVars, allocVars, checkVars, scanVars, outVars>>

\* ------------------------------------------------------------- allocator
ValidPortAny(p) == TRUE

\* ports.go 36, part_008 44: a preferred value that is tried.
ValidPort(p) == ~(p < 1 \/ p > MaxPortNumber)

RECURSIVE PreferFromIn(_, _)
\* part_008 43-51, ports.go 35-43: the loop position at --prefer entry k or
\* after it, for the range rg: invalid entries are skipped, and the range
\* loop starts at rg.Start.
PreferFromIn(k, rg) ==
    IF k > Len(prefer) THEN [ph |-> "range", i |-> rg.Start]
    ELSE IF ~ValidPort(prefer[k]) THEN PreferFromIn(k + 1, rg)
    ELSE [ph |-> "prefer", i |-> k]

\* The same for the range of the call.
PreferFrom(k) == PreferFromIn(k, r)

NextCursorRetries(c) == c

NextCursorOnePreferred(c) ==
    IF c.ph = "prefer" THEN [ph |-> "range", i |-> r.Start] ELSE [ph |-> "range", i |-> c.i + 1]

\* part_008 43 and 51, ports.go 35 and 43: the position after c.
NextCursor(c) ==
    IF c.ph = "prefer" THEN PreferFrom(c.i + 1) ELSE [ph |-> "range", i |-> c.i + 1]

\* part_008 51, ports.go 43: p <= r.End is false.
Exhausted(c) == c.ph = "range" /\ c.i > r.End

\* The candidate at position c.
CandPort(c) == IF c.ph = "prefer" THEN prefer[c.i] ELSE c.i

\* net.Listen fails on a port something listens on.
Bound(p) == probeSock[p] # 0 \/ p \in extBound

\* part_008 77: unix.Flock(LOCK_EX|LOCK_NB) succeeds.
FlockFreeAlways(p) == TRUE

FlockFreeUnlessOutside(p) == p \notin extLocked

FlockFreeNewFileOnly(p) == lockHolder[p] = 0 /\ p \notin extLocked /\ p \notin lockFile

FlockFree(p) == lockHolder[p] = 0 /\ p \notin extLocked

\* part_008 37: the locks after the handle of a failed probe is closed.
ProbeFailLocksKept(p) == lockHolder

ProbeFailLocksRangeOnly(p) ==
    IF p \in r.Start..r.End THEN [lockHolder EXCEPT ![p] = 0] ELSE lockHolder

ProbeFailLocks(p) == [lockHolder EXCEPT ![p] = 0]

\* part_008 40: the locks when tryPort returns the handle.
ReturnLocksReleased(p) == [lockHolder EXCEPT ![p] = 0]

ReturnLocks(p) == lockHolder

\* Candidate p of invocation i failed; the loop goes on, or ends with the
\* error of part_008 56, ports.go 48.
Advance(i, p, why) ==
    LET c == NextCursor(cur[i]) IN
    /\ attempts' = [attempts EXCEPT ![i] = Append(@,
           [port |-> p, why |-> why,
            free |-> IF why = "lock" THEN FlockFree(p) ELSE ~Bound(p)])]
    /\ cur' = [cur EXCEPT ![i] = c]
    /\ IF Exhausted(c)
       THEN /\ apc' = [apc EXCEPT ![i] = "done"]
            /\ err' = [err EXCEPT ![i] = "nofree"]
       ELSE /\ apc' = [apc EXCEPT ![i] = IF kind[i] = "run" THEN "lock" ELSE "listen"]
            /\ UNCHANGED err

\* run.go 23-37, part_004 21-24: run wants a command after --, and run and
\* pick parse --range; an error is returned before the allocator is called.
AllocArgs(i) ==
    /\ apc[i] = "args"
    /\ LET rg == ParseRange(argv.range) IN
       IF kind[i] = "run" /\ argv.dash # "before"
       THEN /\ apc' = [apc EXCEPT ![i] = "done"]
            /\ err' = [err EXCEPT ![i] = "usage"]
            /\ UNCHANGED <<r, cur>>
       ELSE IF ~rg.ok
       THEN /\ apc' = [apc EXCEPT ![i] = "done"]
            /\ err' = [err EXCEPT ![i] = "range"]
            /\ UNCHANGED <<r, cur>>
       ELSE /\ r' = [Start |-> rg.Start, End |-> rg.End]
            /\ cur' = [cur EXCEPT ![i] = PreferFromIn(1, rg)]
            /\ apc' = [apc EXCEPT ![i] = IF kind[i] = "run" THEN "lock" ELSE "listen"]
            /\ UNCHANGED err
    /\ UNCHANGED <<prefer, kind, allocShared, result, childPort, childCode, attempts>>
    /\ UNCHANGED <<killVars, checkVars, scanVars, outVars>>

\* part_008 32-35 and 71-82: tryLockPortFile opens the lock file, creating it
\* if it is not there, and tries the flock.
LockTry(i) ==
    /\ apc[i] = "lock"
    /\ LET p == CandPort(cur[i]) IN
       /\ lockFile' = lockFile \cup {p}
       /\ IF FlockFree(p)
          THEN /\ lockHolder' = [lockHolder EXCEPT ![p] = i]
               /\ apc' = [apc EXCEPT ![i] = "listen"]
               /\ UNCHANGED <<cur, err, attempts>>
          ELSE /\ Advance(i, p, "lock")
               /\ UNCHANGED lockHolder
    /\ UNCHANGED <<allocArgs, probeSock, extBound, extLocked, result, childPort, childCode>>
    /\ UNCHANGED <<killVars, checkVars, scanVars, outVars>>

\* part_008 36-39 and 87-90: net.Listen of the probe, under the lock.
LockedListen(i) ==
    /\ apc[i] = "listen" /\ kind[i] = "run"
    /\ LET p == CandPort(cur[i]) IN
       IF ~Bound(p)
       THEN /\ probeSock' = [probeSock EXCEPT ![p] = i]
            /\ apc' = [apc EXCEPT ![i] = "close"]
            /\ UNCHANGED <<lockHolder, cur, err, attempts>>
       ELSE /\ lockHolder' = ProbeFailLocks(p)
            /\ Advance(i, p, "bind")
            /\ UNCHANGED probeSock
    /\ UNCHANGED <<allocArgs, extBound, extLocked, lockFile, result, childPort, childCode>>
    /\ UNCHANGED <<killVars, checkVars, scanVars, outVars>>

\* part_008 91-92 and 40, run.go 39-53: the probe socket is closed, the port
\* and the handle are returned, and run starts the child with the port.
LockedClose(i) ==
    /\ apc[i] = "close" /\ kind[i] = "run"
    /\ LET p == CandPort(cur[i]) IN
       /\ probeSock' = [probeSock EXCEPT ![p] = 0]
       /\ lockHolder' = ReturnLocks(p)
       /\ result' = [result EXCEPT ![i] = p]
       /\ childPort' = [childPort EXCEPT ![i] = p]
    /\ apc' = [apc EXCEPT ![i] = "child"]
    /\ UNCHANGED <<allocArgs, extBound, extLocked, lockFile, cur, err, childCode, attempts>>
    /\ UNCHANGED <<killVars, checkVars, scanVars, outVars>>

\* part_008 17-23: the locks after invocation i closed its handle; the kernel
\* does the same to the open files of a process that exits.
HandleClosed(i) == [p \in Ports |-> IF lockHolder[p] = i THEN 0 ELSE lockHolder[p]]

\* root.go 22-26: the exit code of a command whose RunE has returned: 1 for
\* an error, whatever the error, and 0 for none.
ExitCodeOf(i) == IF err[i] # "" THEN 1 ELSE 0

\* run.go 43 and 53: the child exits with some code, child.Run returns an
\* error unless the code is 0, and the deferred lockHandle.Close runs.
ChildExit(i) ==
    /\ apc[i] = "child"
    /\ \E code \in ChildCodes :
          /\ childCode' = [childCode EXCEPT ![i] = code]
          /\ err' = [err EXCEPT ![i] = IF code # 0 THEN "exit" ELSE @]
    /\ lockHolder' = HandleClosed(i)
    /\ apc' = [apc EXCEPT ![i] = "done"]
    /\ UNCHANGED <<allocArgs, probeSock, extBound, extLocked, lockFile, cur, result,
                   childPort, attempts>>
    /\ UNCHANGED <<killVars, checkVars, scanVars, outVars>>

\* The run process is killed while its child runs: no deferred call runs, the
\* kernel closes its files, and the child runs on.
RunKilled(i) ==
    /\ apc[i] = "child"
    /\ lockHolder' = [p \in Ports |-> IF lockHolder[p] = i THEN 0 ELSE lockHolder[p]]
    /\ apc' = [apc EXCEPT ![i] = "done"]
    /\ err' = [err EXCEPT ![i] = "killed"]
    /\ UNCHANGED <<allocArgs, probeSock, extBound, extLocked, lockFile, cur, result,
                   childPort, childCode, attempts>>
    /\ UNCHANGED <<killVars, checkVars, scanVars, outVars>>

\* ports.go 51-55: net.Listen of probeTCP, with no lock.
ProbeListen(i) ==
    /\ apc[i] = "listen" /\ kind[i] = "pick"
    /\ LET p == CandPort(cur[i]) IN
       IF ~Bound(p)
       THEN /\ probeSock' = [probeSock EXCEPT ![p] = i]
            /\ apc' = [apc EXCEPT ![i] = "close"]
            /\ UNCHANGED <<cur, err, attempts>>
       ELSE /\ Advance(i, p, "bind")
            /\ UNCHANGED probeSock
    /\ UNCHANGED <<allocArgs, lockHolder, extBound, extLocked, lockFile, result, childPort,
                   childCode>>
    /\ UNCHANGED <<killVars, checkVars, scanVars, outVars>>

\* ports.go 56-57 and 40, part_004 26-36: the probe socket is closed and the
\* port is returned and printed.
ProbeClose(i) ==
    /\ apc[i] = "close" /\ kind[i] = "pick"
    /\ LET p == CandPort(cur[i]) IN
       /\ probeSock' = [probeSock EXCEPT ![p] = 0]
       /\ result' = [result EXCEPT ![i] = p]
    /\ apc' = [apc EXCEPT ![i] = "done"]
    /\ IF jsonOutput
       THEN \E o \in WriteOutcomes :
               /\ written' = written \o JSONWritten("pick", i, o)
               /\ err' = [err EXCEPT ![i] = IF WriteFailed(o) THEN "write" ELSE @]
       ELSE /\ written' = Append(written, [Line("pick", "text") EXCEPT !.inv = i])
            /\ UNCHANGED err
    /\ UNCHANGED <<allocArgs, lockHolder, extBound, extLocked, lockFile, cur, childPort,
                   childCode, attempts>>
    /\ UNCHANGED <<killVars, checkVars, scanVars, jsonOutput, stdoutFails>>

\* The values --prefer can hold: the ports, and a value on each side of them.
PreferVals == 0..MaxPort \cup {MaxPortNumber + 1}

\* Which of the n invocations is a run and which a pick: the invocations are
\* alike, so the runs come first.
KindChoices(n) ==
    {k \in [Invs -> {"run", "pick"}] :
        /\ \A i \in Invs : i > n => k[i] = "pick"
        /\ \A i, j \in 1..n : (i < j /\ k[i] = "pick") => k[j] = "pick"}

\* The ports the loops of part_008 43-55 can reach with these arguments.
Candidates(pf, rg) == {pf[k] : k \in DOMAIN pf} \cup (rg.Start..rg.End)

\* The first n invocations have entered their allocator call (run.go 39,
\* part_004 26) with the same --prefer and --range; other processes listen on
\* some of the candidate ports and invocations outside the model hold the
\* locks of some of them (no call looks at another port, and only a run
\* looks at locks).  Two or more invocations race over at most one preferred
\* port, with no port bound and no lock held outside.
AllocInit ==
    /\ prefer \in SeqsUpTo(PreferVals, MaxPrefer)
    /\ r \in {x \in [Start : Ports, End : Ports] : x.Start <= x.End}
    /\ extBound \in SUBSET (Ports \cap Candidates(prefer, r))
    /\ extLocked \in SUBSET (Ports \cap Candidates(prefer, r))
    /\ \E n \in Invs :
          /\ n >= 2 => (Len(prefer) <= 1 /\ extLocked = {} /\ extBound = {})
          /\ kind \in KindChoices(n)
          /\ (\A i \in Invs : kind[i] = "pick") => extLocked = {}
          /\ apc = [i \in Invs |-> IF i > n THEN "off"
                                   ELSE IF kind[i] = "run" THEN "lock" ELSE "listen"]
    /\ lockHolder = [p \in Ports |-> 0]
    /\ probeSock = [p \in Ports |-> 0]
    /\ lockFile = extLocked
    /\ cur = [i \in Invs |-> PreferFrom(1)]
    /\ result = [i \in Invs |-> 0]
    /\ err = [i \in Invs |-> ""]
    /\ childPort = [i \in Invs |-> 0]
    /\ childCode = [i \in Invs |-> -1]
    /\ attempts = [i \in Invs |-> <<>>]
    /\ KillQuiet
    /\ CheckQuiet
    /\ ScanQuiet
    /\ OutQuiet

AllocNext ==
    \/ \E i \in Invs : LockTry(i)
    \/ \E i \in Invs : LockedListen(i)
    \/ \E i \in Invs : LockedClose(i)
    \/ \E i \in Invs : ChildExit(i)
    \/ \E i \in Invs : RunKilled(i)
    \/ \E i \in Invs : ProbeListen(i)
    \/ \E i \in Invs : ProbeClose(i)

\* ----------------------------------------------------------------- check
\* The <port> argument of check, parsed.
CheckPort == ParsePort(argv.port).val

\* part_006 21-25 and 58-63: the port argument is parsed, and the deadline of
\* --wait is set.
CheckArgs ==
    /\ cpc = "args"
    /\ IF ~ParsePort(argv.port).ok
       THEN /\ cpc' = "done" /\ checkExit' = 2
            /\ UNCHANGED checkDeadline
       ELSE /\ cpc' = "poll"
            /\ checkDeadline' = now + checkWait
            /\ UNCHANGED checkExit
    /\ UNCHANGED <<argv, checkWait, checkPolls>>
    /\ UNCHANGED <<killVars, allocVars, scanVars, outVars>>

\* part_006 72: time.Now().After(deadline).
CheckDeadlinePassed == now > checkDeadline

\* part_006 27-50: the exit code for the answer of waitForPortFree.
CheckExitFreeOnly(inUse) == 0

CheckExitCode(inUse) == IF inUse THEN 1 ELSE 0

\* part_006 59-76 and 27-50: one discovery of waitForPortFree and what follows
\* it: the error exit, the answer, or the sleep before the next discovery.
CheckPoll ==
    /\ cpc = "poll"
    /\ DiscoveryReturns
    /\ IF DiscoveryFails
       THEN /\ cpc' = "done" /\ checkExit' = 2
            /\ UNCHANGED <<checkPolls, now>>
       ELSE LET inUse == HasTCPListenerOnPort(ListTCPListeners, CheckPort) IN
            /\ checkPolls' = Append(checkPolls, [at |-> now, inUse |-> inUse])
            /\ IF checkWait <= 0 \/ ~inUse \/ CheckDeadlinePassed
               THEN /\ cpc' = "done" /\ checkExit' = CheckExitCode(inUse)
                    /\ UNCHANGED now
               ELSE /\ now' = now + CheckIntervalMs
                    /\ UNCHANGED <<cpc, checkExit>>
    /\ UNCHANGED <<argv, checkWait, checkDeadline>>
    /\ UNCHANGED <<socks, alive, pending, extEvents, tool, toolHangs, current>>
    /\ UNCHANGED <<killFlags, killLocals, killHist, allocVars, scanVars, outVars>>

\* The texts a <port> argument is drawn from: the port kill is asked about
\* and another one, plain and signed, the ends of 1..65535 and the values
\* next to them, and texts that are no number.
PortTexts ==
    {<<"3", "0", "0", "0">>, <<"+", "3", "0", "0", "0">>, <<"3", "0", "0", "1">>, <<"1">>, <<"6", "5", "5", "3", "5">>, <<"0">>, <<"6", "5", "5", "3", "6">>,
     <<"-", "1">>, <<"-", "3", "0", "0", "0">>, <<" ", "3", "0", "0", "0">>, <<"3", "0", "x">>, <<>>}

CheckArgv(t) == [NoArgv EXCEPT !.cmd = "check", !.port = t]

\* check is invoked with any port argument and any --wait, on any listing.
CheckInit ==
    /\ socks \in SeqsUpTo(SockChoices, MaxSocks)
    /\ alive = {socks[i].pid : i \in DOMAIN socks} \ {0}
    /\ pending = {}
    /\ now = 0
    /\ extEvents = 0
    /\ tool \in {"lsof", "ss", "none"}
    /\ toolHangs \in (IF tool = "none" THEN {FALSE} ELSE BOOLEAN)
    /\ current = Caller
    /\ KillIdle
    /\ AllocQuiet
    /\ argv \in {CheckArgv(t) : t \in PortTexts}
    /\ cpc = "args"
    /\ checkWait \in Timeouts
    /\ checkDeadline = 0
    /\ checkPolls = <<>>
    /\ checkExit = -1
    /\ ScanQuiet
    /\ OutQuiet

\* The caller runs check on the port of kill, without --wait, as soon as
\* kill has returned.
CheckAfterKill ==
    /\ kpc = "done"
    /\ cpc = "off"
    /\ argv' = CheckArgv(<<"3", "0", "0", "0">>)
    /\ cpc' = "args"
    /\ checkWait' = 0
    /\ UNCHANGED <<checkDeadline, checkPolls, checkExit>>
    /\ UNCHANGED <<killVars, allocVars, scanVars, outVars>>

CheckNext ==
    \/ CheckArgs
    \/ CheckPoll
    \/ \E pid \in Pids : ExtExit(pid)
    \/ \E pid \in Pids : ExtListen(pid)

\* ------------------------------------------------------------------ list
\* The tools list looks for in PATH.
Tools == {"lsof", "ss", "ps"}

SelectToolSSFirst(path) ==
    IF "ss" \in path THEN "ss" ELSE IF "lsof" \in path THEN "lsof" ELSE "none"

\* part_009 21-29: the adapter ListTCPListeners runs: lsof if it is in PATH,
\* or else ss if it is, or else none.
SelectTool(path) ==
    IF "lsof" \in path THEN "lsof" ELSE IF "ss" \in path THEN "ss" ELSE "none"

\* What the operating system says of process pid: the command name the
\* discovery tool prints, and the command line, executable, parent and
\* working directory that ps and /proc give.  The name of one process in
\* three holds the text "no", the executable of the next holds it in
\* another letter case, and the command line of the third holds it.
CommandOf(pid) == IF pid % 3 = 1 THEN <<"n", "o">> ELSE <<"s", "h">>
ExeOf(pid) == IF pid % 3 = 2 THEN <<"/", "N", "o">> ELSE <<"/">> \o CommandOf(pid)
CmdLineOf(pid) == IF pid % 3 = 0 THEN <<"s", "h", " ", "n", "o">> ELSE CommandOf(pid)
ParentOf(pid) == 1
CwdOf(pid) == <<"/">>

\* A record as an adapter makes it: the optional fields are empty.  (The
\* fields list never looks at, User and Proto, are left out.)
BaseRecord(port, pid, addr) ==
    [Port |-> port, PID |-> pid, Address |-> addr,
     Command |-> IF pid > 0 THEN CommandOf(pid) ELSE <<>>,
     PPID |-> 0, CommandLine |-> <<>>, Executable |-> <<>>, CWD |-> <<>>]

\* The records a discovery can hold: the sockets of SockChoices, each on the
\* IPv4 or on the IPv6 wildcard address.
ToolRecChoices ==
    {BaseRecord(x.port, x.pid, a) : x \in SockChoices, a \in {"*", "[::]"}}

\* ss_test.go 63-72: byPID: the first record of each pid > 0.
FirstOfPid(recs, i) ==
    /\ recs[i].PID > 0
    /\ \A j \in 1..(i - 1) : recs[j].PID # recs[i].PID

\* ss_test.go 81-126: fillFromPS: ps prints a line for the pids that run.
FillFromPS(rec) ==
    IF "ps" \in inPath /\ procState[rec.PID] # "gone"
    THEN [rec EXCEPT !.PPID = ParentOf(rec.PID), !.CommandLine = CmdLineOf(rec.PID)]
    ELSE rec

\* ss_test.go 128-141: fillProcPaths on Linux: the links of /proc/<pid> read.
FillProcPaths(rec) ==
    IF procState[rec.PID] = "ok"
    THEN [rec EXCEPT !.CWD = CwdOf(rec.PID), !.Executable = ExeOf(rec.PID)]
    ELSE rec

EnrichNothing(recs) == recs

\* ss_test.go 62-79: EnrichListenersWithProcessInfo, in place.
EnrichListenersWithProcessInfo(recs) ==
    [i \in DOMAIN recs |->
        IF FirstOfPid(recs, i) THEN FillProcPaths(FillFromPS(recs[i])) ELSE recs[i]]

\* ss_test.go 73-77 and 82-95: the child process an enrichment starts.
EnrichSpawns(recs) ==
    IF "ps" \in inPath /\ \E i \in DOMAIN recs : recs[i].PID > 0 THEN <<"ps">> ELSE <<>>

\* part_003 144-156: matchesFilter.
matchesFilter(l, filter) ==
    \/ Contains(ToLower(l.Command), filter)
    \/ Contains(ToLower(l.Executable), filter)
    \/ Contains(ToLower(l.CommandLine), filter)

\* part_003 68: the key of a record.
UniqueKeyPortOnly(l) == <<l.Port>>

UniqueKey(l) == <<l.Port, l.PID>>

RECURSIVE UniqueFrom(_, _, _)
\* part_003 65-75: the loop from index k on, with the keys seen so far.
UniqueFrom(recs, k, seen) ==
    IF k > Len(recs) THEN <<>>
    ELSE IF UniqueKey(recs[k]) \in seen THEN UniqueFrom(recs, k + 1, seen)
    ELSE <<recs[k]>> \o UniqueFrom(recs, k + 1, seen \cup {UniqueKey(recs[k])})

\* part_003 64-76: --unique.
Unique(recs) == UniqueFrom(recs, 1, {})

\* part_003 78-83: the less function of the sort.
SortLess(a, b) == IF a.Port # b.Port THEN a.Port < b.Port ELSE a.PID < b.PID

\* The orders of n records.
Orders(n) == {f \in [1..n -> 1..n] : \A i, j \in 1..n : f[i] = f[j] => i = j}

\* part_003 78: what sort.Slice can leave: the records in an order where no
\* record is less than one before it.  sort.Slice is not stable: records
\* that are not less than each other can come out in any order.
SortOutcomes(recs) ==
    {q \in {[i \in DOMAIN recs |-> recs[f[i]]] : f \in Orders(Len(recs))} :
        \A i, j \in DOMAIN q : i < j => ~SortLess(q[j], q[i])}

\* part_003 30-33: the discovery.
ListDiscover ==
    /\ lpc = "discover"
    /\ LET t == SelectTool(inPath) IN
       IF t = "none"
       THEN /\ lpc' = "done" /\ listErr' = "notool"
            /\ UNCHANGED <<listed, spawned>>
       ELSE /\ spawned' = Append(spawned, t)
            /\ IF toolFails
               THEN lpc' = "done" /\ listErr' = "tool" /\ UNCHANGED listed
               ELSE lpc' = "port" /\ listed' = toolRecs /\ UNCHANGED listErr
    /\ UNCHANGED <<listEnv, listFlags, listOut, parseVars>>
    /\ UNCHANGED <<killVars, allocVars, checkVars, outVars>>

\* part_003 40-48: --port.
ListByPort ==
    /\ lpc = "port"
    /\ listed' = IF listPort > 0
                 THEN SelectSeq(listed, LAMBDA l : l.Port = listPort) ELSE listed
    /\ lpc' = "filter"
    /\ UNCHANGED <<listEnv, listFlags, spawned, listErr, listOut, parseVars>>
    /\ UNCHANGED <<killVars, allocVars, checkVars, outVars>>

\* part_003 52-54: the records the filter looks at.
FilterInput(recs) ==
    IF ~listVerbose THEN EnrichListenersWithProcessInfo(recs) ELSE recs

\* part_003 35-38 and 50-62: the substring filter.
ListFilter ==
    /\ lpc = "filter"
    /\ LET filter == ToLower(listFilter) IN
       IF filter # <<>>
       THEN /\ listed' = SelectSeq(FilterInput(listed), LAMBDA l : matchesFilter(l, filter))
            /\ spawned' = IF ~listVerbose THEN spawned \o EnrichSpawns(listed) ELSE spawned
       ELSE UNCHANGED <<listed, spawned>>
    /\ lpc' = "unique"
    /\ UNCHANGED <<listEnv, listFlags, listErr, listOut, parseVars>>
    /\ UNCHANGED <<killVars, allocVars, checkVars, outVars>>

\* part_003 64-76: --unique.
ListUnique ==
    /\ lpc = "unique"
    /\ listed' = IF listUnique THEN Unique(listed) ELSE listed
    /\ lpc' = "sort"
    /\ UNCHANGED <<listEnv, listFlags, spawned, listErr, listOut, parseVars>>
    /\ UNCHANGED <<killVars, allocVars, checkVars, outVars>>

\* part_003 78-83: the sort.
ListSort ==
    /\ lpc = "sort"
    /\ listed' \in SortOutcomes(listed)
    /\ lpc' = "output"
    /\ UNCHANGED <<listEnv, listFlags, spawned, listErr, listOut, parseVars>>
    /\ UNCHANGED <<killVars, allocVars, checkVars, outVars>>

\* part_003 89-111, kill.go 234-268: the records are written: with --json
\* by WriteJSON, whose error is returned; without, as the lines first and
\* then one line or more for each record.
WriteRecords(cmd, recs, first) ==
    IF jsonOutput
    THEN \E o \in WriteOutcomes :
            /\ written' = written \o JSONWritten(cmd, 0, o)
            /\ listErr' = IF WriteFailed(o) THEN "write" ELSE listErr
            /\ listOut' = IF o = "whole" THEN recs ELSE <<>>
    ELSE /\ written' = written \o first \o [k \in DOMAIN recs |-> Line(cmd, "text")]
         /\ listOut' = recs
         /\ UNCHANGED listErr

\* part_003 85-111: the enrichment of --verbose, and the output.
ListOutput ==
    /\ lpc = "output"
    /\ listed' = IF listVerbose THEN EnrichListenersWithProcessInfo(listed) ELSE listed
    /\ spawned' = IF listVerbose THEN spawned \o EnrichSpawns(listed) ELSE spawned
    /\ WriteRecords("list", listed', <<Line("list", "text")>>)
    /\ lpc' = "done"
    /\ UNCHANGED <<listEnv, listFlags, parseVars>>
    /\ UNCHANGED <<killVars, allocVars, checkVars, jsonOutput, stdoutFails>>

\* kill.go 258-266: the lines who writes after the line of each record: one
\* for each of the command line, the executable and the working directory
\* that is known.
WhoDetails(recs) ==
    LET n(k) == (IF recs[k].CommandLine # <<>> THEN 1 ELSE 0)
                + (IF recs[k].Executable # <<>> THEN 1 ELSE 0)
                + (IF recs[k].CWD # <<>> THEN 1 ELSE 0)
        total[k \in 0..Len(recs)] == IF k = 0 THEN 0 ELSE total[k - 1] + n(k)
    IN [j \in 1..total[Len(recs)] |-> Line("who", "text")]

\* kill.go 214-268: who: the port argument is parsed, the discovery is
\* made, the records on the port are enriched and written.
Who ==
    /\ lpc = "who"
    /\ lpc' = "done"
    /\ LET t == SelectTool(inPath) IN
       IF ~ParsePort(argv.port).ok
       THEN listErr' = "usage" /\ UNCHANGED <<listed, spawned, listOut, written>>
       ELSE IF t = "none"
       THEN listErr' = "notool" /\ UNCHANGED <<listed, spawned, listOut, written>>
       ELSE IF toolFails
       THEN /\ listErr' = "tool" /\ spawned' = Append(spawned, t)
            /\ UNCHANGED <<listed, listOut, written>>
       ELSE LET matches == SelectSeq(toolRecs, LAMBDA l : l.Port = ParsePort(argv.port).val) IN
            /\ listed' = EnrichListenersWithProcessInfo(matches)
            /\ spawned' = Append(spawned, t) \o EnrichSpawns(matches)
            /\ WriteRecords("who", listed',
                            IF matches = <<>> THEN <<Line("who", "text")>>
                            ELSE WhoDetails(listed'))
    /\ UNCHANGED <<listEnv, listFlags, parseVars>>
    /\ UNCHANGED <<killVars, allocVars, checkVars, jsonOutput, stdoutFails>>

\* Every process answers, or one has exited, or one is refused.
ProcStates ==
    {[pid \in Pids |-> "ok"]}
    \cup {[pid \in Pids |-> IF pid = x THEN st ELSE "ok"] : x \in Pids, st \in {"gone", "refused"}}

\* list is invoked.  Either the discovery is looked at, with any tools in
\* PATH and a tool that works or fails, and no flag but --port; or what
\* follows it, with lsof there, ps there or not, the other flags and any
\* process state (all processes answering when no enrichment runs).
ListInit ==
    /\ KillQuiet
    /\ AllocQuiet
    /\ CheckQuiet
    /\ toolRecs \in SeqsUpTo(ToolRecChoices, MaxRecs)
    /\ \/ /\ inPath \in SUBSET Tools
          /\ toolFails \in BOOLEAN
          /\ (toolFails \/ SelectTool(inPath) = "none") => toolRecs = <<>>
          /\ procState = [pid \in Pids |-> "ok"]
          /\ listPort \in {0, KillPort}
          /\ listFilter = <<>> /\ listUnique = FALSE /\ listVerbose = FALSE
       \/ /\ inPath \in {{"lsof"}, {"lsof", "ps"}}
          /\ toolFails = FALSE
          /\ listPort = 0
          /\ listFilter \in {<<>>, <<"N", "O">>}
          /\ listUnique \in BOOLEAN
          /\ listVerbose \in BOOLEAN
          /\ procState \in ProcStates
          /\ (listFilter = <<>> /\ ~listVerbose) => procState = [pid \in Pids |-> "ok"]
    /\ lpc = "discover" /\ listed = <<>> /\ spawned = <<>> /\ listErr = "" /\ listOut = <<>>
    /\ toolOut = <<>> /\ ppc = "off" /\ parsed = NoParse
    /\ OutQuiet

ListNext ==
    \/ ListDiscover
    \/ ListByPort
    \/ ListFilter
    \/ ListUnique
    \/ ListSort
    \/ ListOutput

\* list alone.
ListSpec == ListInit /\ [][ListNext]_vars

\* ---------------------------------------------------- the adapters' parsers
\* A line of a tool's output is its fields, as strings.Fields gives them,
\* and whether it is longer than a bufio.Scanner holds (64 KiB).
RECURSIVE LastIndex(_, _)
\* strings.LastIndex for one character: 0 if there is none.
LastIndex(t, c) ==
    IF t = <<>> THEN 0
    ELSE IF t[Len(t)] = c THEN Len(t)
    ELSE LastIndex(SubSeq(t, 1, Len(t) - 1), c)

\* lsof.go 92-99, ss.go 102-113: the port after the last colon of a token,
\* or 0 if it has none.
parsePortFromAddress(addr) ==
    LET lastColon == LastIndex(addr, ":") IN
    IF lastColon = 0 \/ lastColon = Len(addr) THEN 0
    ELSE LET p == Atoi(SubSeq(addr, lastColon + 1, Len(addr))) IN
         IF ~p.ok \/ p.val < 1 \/ p.val > MaxPortNumber THEN 0 ELSE p.val

RECURSIVE LsofAddressFrom(_, _)
\* lsof.go 80-103: parseLsofAddressAndPort from field i down.
LsofAddressFrom(fields, i) ==
    IF i < 1 THEN [addr |-> <<>>, port |-> 0]
    ELSE IF fields[i] = TokLISTEN THEN LsofAddressFrom(fields, i - 1)
    ELSE IF parsePortFromAddress(fields[i]) = 0 THEN LsofAddressFrom(fields, i - 1)
    ELSE [addr |-> fields[i], port |-> parsePortFromAddress(fields[i])]

\* The record of no line.
NoRecord == [ok |-> FALSE, Port |-> 0, PID |-> 0, Address |-> <<>>]

\* lsof.go 55-78: parseLsofLine.  (Command, User and Proto are left out.)
parseLsofLine(fields) ==
    IF Len(fields) < 4 THEN NoRecord
    ELSE LET pid == Atoi(fields[2])
             a == LsofAddressFrom(fields, Len(fields))
         IN IF a.port = 0 THEN NoRecord
            ELSE [ok |-> TRUE, Port |-> a.port, PID |-> IF pid.ok THEN pid.val ELSE 0,
                  Address |-> a.addr]

\* ss.go 88-100: extractSSLocal: the index of the local address, or 0.
extractSSLocal(fields) ==
    IF Len(fields) > 3 /\ Contains(fields[4], <<":">>) THEN 4
    ELSE LET c == {i \in DOMAIN fields :
                      Contains(fields[i], <<":">>) /\ ~Contains(fields[i], TokUsers)}
         IN IF c = {} THEN 0 ELSE CHOOSE i \in c : \A j \in c : i <= j

\* ss.go 13 and 70-72: the digits after the first "pid=" that has digits
\* after it, in a token.
PidInToken(t) ==
    LET at == {k \in DOMAIN t : /\ k + 4 <= Len(t)
                                /\ SubSeq(t, k, k + 3) = TokPid
                                /\ IsDigit(t[k + 4])}
    IN IF at = {} THEN <<>>
       ELSE LET k == CHOOSE i \in at : \A j \in at : i <= j
                e == CHOOSE i \in (k + 4)..Len(t) :
                        /\ \A j \in (k + 4)..i : IsDigit(t[j])
                        /\ i = Len(t) \/ ~IsDigit(t[i + 1])
            IN SubSeq(t, k + 4, e)

\* ss.go 69-72: the pid of the first match in the line, or 0.
SSPid(fields) ==
    LET c == {i \in DOMAIN fields : PidInToken(fields[i]) # <<>>} IN
    IF c = {} THEN 0
    ELSE DigitsValue(PidInToken(fields[CHOOSE i \in c : \A j \in c : i <= j]))

\* ss.go 53-86: parseSSLine.  (Command and Proto are left out.)
parseSSLine(fields) ==
    IF Len(fields) < 4 THEN NoRecord
    ELSE LET k == extractSSLocal(fields) IN
         IF k = 0 THEN NoRecord
         ELSE IF parsePortFromAddress(fields[k]) = 0 THEN NoRecord
         ELSE [ok |-> TRUE, Port |-> parsePortFromAddress(fields[k]),
               PID |-> SSPid(fields), Address |-> fields[k]]

\* lsof.go 36-41: the first line is skipped if it begins with "COMMAND ".
IsLsofHeader(lines, k) ==
    k = 1 /\ Len(lines[k].fields) >= 2 /\ lines[k].fields[1] = TokCOMMAND

\* The line parser of an adapter, and the lines it skips unparsed.
ParseLine(adapter, fields) ==
    IF adapter = "lsof" THEN parseLsofLine(fields) ELSE parseSSLine(fields)

SkippedUnparsed(adapter, lines, k) == adapter = "lsof" /\ IsLsofHeader(lines, k)

RECURSIVE ScanFrom(_, _, _)
\* lsof.go 34-48, ss.go 39-46: the loop over the lines the scanner gives,
\* from line k on.
ScanFrom(adapter, lines, k) ==
    IF k > Len(lines) THEN <<>>
    ELSE LET rec == ParseLine(adapter, lines[k].fields) IN
         IF SkippedUnparsed(adapter, lines, k) \/ ~rec.ok
         THEN ScanFrom(adapter, lines, k + 1)
         ELSE <<rec>> \o ScanFrom(adapter, lines, k + 1)

\* lsof.go 49-51, ss.go 47-49: scanner.Err() is bufio.ErrTooLong after a line
\* the scanner cannot hold.
ScannerFails(lines) == \E k \in DOMAIN lines : lines[k].long

\* lsof.go 30-53, ss.go 36-51: parseLsofOutput and parseSSOutput.
ParseOutput(adapter, lines) ==
    IF ScannerFails(lines) THEN [adapter |-> adapter, ok |-> FALSE, recs |-> <<>>]
    ELSE [adapter |-> adapter, ok |-> TRUE, recs |-> ScanFrom(adapter, lines, 1)]

\* lsof.go 23: the output of lsof is parsed.
ParseLsof ==
    /\ ppc = "raw"
    /\ parsed' = ParseOutput("lsof", toolOut)
    /\ ppc' = "parsed"
    /\ UNCHANGED <<toolOut, listVars>>
    /\ UNCHANGED <<killVars, allocVars, checkVars, outVars>>

\* ss.go 29: the output of ss is parsed.
ParseSS ==
    /\ ppc = "raw"
    /\ parsed' = ParseOutput("ss", toolOut)
    /\ ppc' = "parsed"
    /\ UNCHANGED <<toolOut, listVars>>
    /\ UNCHANGED <<killVars, allocVars, checkVars, outVars>>

\* kill.go 42-58: kill resolves its targets from the records the adapter
\* returned.
KillResolveParsed ==
    /\ ppc = "parsed" /\ parsed.ok
    /\ listeners' = parsed.recs
    /\ targets' = ResolveTargets(parsed.recs, KillPort)
    /\ ppc' = "resolved"
    /\ UNCHANGED <<toolOut, parsed, listVars>>
    /\ UNCHANGED <<osVars, killFlags, kpc, kidx, signaled, deadline, killHist>>
    /\ UNCHANGED <<allocVars, checkVars, outVars>>

\* The tokens a line is made of: the state of lsof and of ss, addresses with
\* a port, with a service name, with a port above 65535 and with nothing
\* after the colon, a name with a colon and digits in it, a number, and the
\* process field of ss.
TokenChoices ==
    {TokLISTEN, <<"*", ":", "3", "0", "0", "0">>, <<"*", ":", "h", "t", "t", "p">>, <<"*", ":", "6", "5", "5", "3", "6">>, <<"*", ":">>, <<"n", ":", "7">>, <<"1", "2">>, <<"u", "s", "e", "r", "s", ":", "(", "(", "p", "i", "d", "=", "5", ",", "p", "i", "d", "=", "6", ")", ")">>}

\* The lines a listing is made of: the header of lsof, a line of lsof and one
\* of ss, a line of lsof with a service name, a line too short, and a line of
\* ss too long for the scanner.
LineChoices ==
    {[fields |-> <<TokCOMMAND, <<"P", "I", "D">>, <<"U", "S", "E", "R">>, <<"N", "A", "M", "E">>>>,
      long |-> FALSE],
     [fields |-> <<<<"n">>, <<"1", "2">>, <<"a">>, <<"*", ":", "3", "0", "0", "0">>, TokLISTEN>>, long |-> FALSE],
     [fields |-> <<<<"L">>, <<"0">>, <<"0">>, <<"*", ":", "3", "0", "0", "0">>, <<"*", ":", "*">>, <<"u", "s", "e", "r", "s", ":", "(", "(", "p", "i", "d", "=", "5", ",", "p", "i", "d", "=", "6", ")", ")">>>>, long |-> FALSE],
     [fields |-> <<<<"n">>, <<"1", "2">>, <<"a">>, <<"*", ":", "h", "t", "t", "p">>, TokLISTEN>>, long |-> FALSE],
     [fields |-> <<<<"n">>, <<"1", "2">>>>, long |-> FALSE],
     [fields |-> <<<<"L">>, <<"0">>, <<"0">>, <<"*", ":", "3", "0", "0", "0">>, <<"*", ":", "*">>, <<"u", "s", "e", "r", "s", ":", "(", "(", "p", "i", "d", "=", "5", ",", "p", "i", "d", "=", "6", ")", ")">>>>, long |-> TRUE]}

\* An adapter's parser is given one line of any tokens, or a listing.
ParseInit ==
    /\ KillQuiet
    /\ AllocQuiet
    /\ CheckQuiet
    /\ inPath = {"lsof"}
    /\ toolFails = FALSE /\ toolRecs = <<>>
    /\ procState = [pid \in Pids |-> "ok"]
    /\ listPort = 0 /\ listFilter = <<>> /\ listUnique = FALSE /\ listVerbose = FALSE
    /\ lpc = "off" /\ listed = <<>> /\ spawned = <<>> /\ listErr = "" /\ listOut = <<>>
    /\ \/ toolOut \in {<<[fields |-> f, long |-> FALSE]>> : f \in SeqsUpTo(TokenChoices, MaxFields)}
       \/ toolOut \in SeqsUpTo(LineChoices, MaxLines)
    /\ ppc = "raw"
    /\ parsed = NoParse
    /\ OutQuiet

ParseNext == ParseLsof \/ ParseSS \/ KillResolveParsed

\* The parsers alone.
ParseSpec == ParseInit /\ [][ParseNext]_vars

\* ----------------------------------------------------- the command line
\* The texts --signal is drawn from.
SignalTexts ==
    {<<"T", "E", "R", "M">>, <<"t", "e", "r", "m">>, <<"S", "i", "g", "T", "e", "r", "m">>, <<"S", "I", "G", "I", "N", "T">>, <<"i", "n", "t">>, <<"K", "I", "L", "L">>,
     <<"s", "i", "g", "k", "i", "l", "l">>, <<" ", "T", "E", "R", "M", " ">>, <<"H", "U", "P">>, <<"9">>, <<"S", "I", "G">>, <<>>}

\* The texts --range is drawn from; the ranges lie in the ports 1..MaxPort.
RangeTexts ==
    {<<"1", "-", "2">>, <<"1", "-", "1">>, <<"2", "-", "2">>, <<" ", "1", " ", "-", " ", "2", " ">>, <<"+", "1", "-", "2">>, <<"2", "-", "1">>,
     <<"0", "-", "1">>, <<"1", "-", "6", "5", "5", "3", "6">>, <<"1">>, <<"1", "-", "2", "-", "3">>, <<"a", "-", "2">>, <<"1", "-">>,
     <<"-", "1", "-", "2">>, <<>>}

\* One process of the caller listens on the port, and lsof is there.
OsOneListener ==
    /\ socks = <<[port |-> KillPort, pid |-> 1]>>
    /\ alive = {1} /\ pending = {} /\ now = 0 /\ extEvents = 0
    /\ tool = "lsof" /\ toolHangs = FALSE /\ current = Caller

\* kill is invoked with any <port> that is not another port, and any --signal.
KillArgInit ==
    /\ OsOneListener
    /\ argv \in {[NoArgv EXCEPT !.cmd = "kill", !.port = t, !.signal = sg] :
                   t \in {x \in PortTexts : ParsePort(x).ok => ParsePort(x).val = KillPort},
                   sg \in SignalTexts}
    /\ killForce = FALSE /\ killSignal = "TERM"
    /\ killTimeout = TimeoutStepMs /\ killDryRun \in BOOLEAN
    /\ kpc = "args" /\ listeners = <<>> /\ targets = <<>> /\ kidx = 1
    /\ signaled = 0 /\ deadline = 0
    /\ sent = <<>> /\ polls = <<>> /\ exit = -1 /\ report = NoReport
    /\ AllocQuiet
    /\ cpc = "off" /\ checkWait = 0 /\ checkDeadline = 0
    /\ checkPolls = <<>> /\ checkExit = -1
    /\ ScanQuiet
    /\ OutQuiet

\* check is invoked with any <port>.
CheckArgInit ==
    /\ OsOneListener
    /\ KillIdle
    /\ AllocQuiet
    /\ argv \in {CheckArgv(t) : t \in PortTexts}
    /\ cpc = "args" /\ checkWait \in {0, TimeoutStepMs} /\ checkDeadline = 0
    /\ checkPolls = <<>> /\ checkExit = -1
    /\ ScanQuiet
    /\ OutQuiet

\* run or pick is invoked with any --range, and run with or without --.
AllocArgInit ==
    /\ KillQuiet
    /\ argv \in {[NoArgv EXCEPT !.cmd = c, !.range = t, !.dash = d] :
                   c \in {"run", "pick"}, t \in RangeTexts,
                   d \in {"absent", "last", "before"}}
    /\ argv.cmd = "pick" => argv.dash = "absent"
    /\ prefer \in {<<>>, <<1>>}
    /\ r = [Start |-> 1, End |-> 1]
    /\ kind = [i \in Invs |-> IF i = 1 THEN argv.cmd ELSE "pick"]
    /\ lockHolder = [p \in Ports |-> 0]
    /\ probeSock = [p \in Ports |-> 0]
    /\ extBound \in SUBSET {1}
    /\ extLocked = {}
    /\ lockFile = {}
    /\ apc = [i \in Invs |-> IF i = 1 THEN "args" ELSE "off"]
    /\ cur = [i \in Invs |-> [ph |-> "prefer", i |-> 1]]
    /\ result = [i \in Invs |-> 0]
    /\ err = [i \in Invs |-> ""]
    /\ childPort = [i \in Invs |-> 0]
    /\ childCode = [i \in Invs |-> -1]
    /\ attempts = [i \in Invs |-> <<>>]
    /\ cpc = "off" /\ checkWait = 0 /\ checkDeadline = 0
    /\ checkPolls = <<>> /\ checkExit = -1
    /\ ScanQuiet
    /\ OutQuiet

\* One command is invoked with its arguments as typed.
ArgInit == KillArgInit \/ CheckArgInit \/ AllocArgInit

ArgNext ==
    \/ KillArgs
    \/ \E i \in Invs : AllocArgs(i)
    \/ KillNext
    \/ AllocNext
    \/ CheckNext

\* The commands from their command line on.
ArgSpec == ArgInit /\ [][ArgNext]_vars

\* A command that writes to standard output is invoked, with --json or
\* without, on a standard output that takes every write or can fail one:
\* kill with a port and a signal that parse or do not, on a listing of at
\* most one socket; pick with a range that parses or does not; list; or who
\* with a port that parses or does not.
OutInit ==
    /\ jsonOutput \in BOOLEAN /\ stdoutFails \in BOOLEAN /\ written = <<>>
    /\ cpc = "off" /\ checkWait = 0 /\ checkDeadline = 0
    /\ checkPolls = <<>> /\ checkExit = -1
    /\ \/ /\ argv \in {[NoArgv EXCEPT !.cmd = "kill", !.port = t, !.signal = sg] :
                         t \in {<<"3", "0", "0", "0">>, <<"0">>},
                         sg \in {<<"T", "E", "R", "M">>, <<"H", "U", "P">>}}
          /\ socks \in SeqsUpTo(SockChoices, 1)
          /\ alive = {socks[i].pid : i \in DOMAIN socks} \ {0}
          /\ pending = {} /\ now = 0 /\ extEvents = 0
          /\ tool \in {"lsof", "none"} /\ toolHangs = FALSE
          /\ current \in {Caller, NoUser}
          /\ killForce \in BOOLEAN /\ killSignal = "TERM"
          /\ killTimeout \in {0, TimeoutStepMs} /\ killDryRun \in BOOLEAN
          /\ kpc = "args" /\ listeners = <<>> /\ targets = <<>> /\ kidx = 1
          /\ signaled = 0 /\ deadline = 0
          /\ sent = <<>> /\ polls = <<>> /\ exit = -1 /\ report = NoReport
          /\ AllocQuiet
          /\ ScanQuiet
       \/ /\ argv \in {[NoArgv EXCEPT !.cmd = "pick", !.range = t] :
                         t \in {<<"1", "-", "2">>, <<"2", "-", "1">>}}
          /\ KillQuiet
          /\ prefer = <<>>
          /\ r = [Start |-> 1, End |-> 1]
          /\ kind = [i \in Invs |-> "pick"]
          /\ lockHolder = [p \in Ports |-> 0]
          /\ probeSock = [p \in Ports |-> 0]
          /\ extBound \in SUBSET Ports
          /\ extLocked = {}
          /\ lockFile = {}
          /\ apc = [i \in Invs |-> IF i = 1 THEN "args" ELSE "off"]
          /\ cur = [i \in Invs |-> [ph |-> "prefer", i |-> 1]]
          /\ result = [i \in Invs |-> 0]
          /\ err = [i \in Invs |-> ""]
          /\ childPort = [i \in Invs |-> 0]
          /\ childCode = [i \in Invs |-> -1]
          /\ attempts = [i \in Invs |-> <<>>]
          /\ ScanQuiet
       \/ /\ \/ argv = NoArgv /\ lpc = "discover"
             \/ /\ argv \in {[NoArgv EXCEPT !.cmd = "who", !.port = t] :
                               t \in {<<"3", "0", "0", "0">>, <<"0">>}}
                /\ lpc = "who"
          /\ KillQuiet
          /\ AllocQuiet
          /\ inPath \in {{}, {"lsof"}, {"lsof", "ps"}}
          /\ toolFails \in BOOLEAN
          /\ toolRecs \in SeqsUpTo(ToolRecChoices, MaxRecs)
          /\ (toolFails \/ SelectTool(inPath) = "none") => toolRecs = <<>>
          /\ procState = [pid \in Pids |-> "ok"]
          /\ listPort = 0 /\ listFilter = <<>> /\ listUnique = FALSE /\ listVerbose = FALSE
          /\ listed = <<>> /\ spawned = <<>> /\ listErr = "" /\ listOut = <<>>
          /\ toolOut = <<>> /\ ppc = "off" /\ parsed = NoParse

OutNext ==
    \/ KillArgs
    \/ KillNext
    \/ \E i \in Invs : AllocArgs(i)
    \/ \E i \in Invs : ProbeListen(i)
    \/ \E i \in Invs : ProbeClose(i)
    \/ ListNext
    \/ Who

\* The commands that write to standard output: kill, pick, list and who.
OutSpec == OutInit /\ [][OutNext]_vars

\* kill alone: no run or pick is invoked.
KillSpec == KillInit /\ [][KillNext]_vars

\* run and pick alone: no kill is invoked.
AllocSpec == AllocInit /\ [][AllocNext]_vars

\* kill, and a check that follows it.
KillCheckNext ==
    \/ KillNext
    \/ CheckAfterKill
    \/ CheckArgs
    \/ CheckPoll

KillCheckSpec == KillInit /\ [][KillCheckNext]_vars

\* check alone.
CheckSpec == CheckInit /\ [][CheckNext]_vars

\* check alone, where a step check can take is taken in the end: the process
\* is scheduled, and a sleep ends.
CheckFairSpec == CheckSpec /\ WF_vars(CheckArgs) /\ WF_vars(CheckPoll)

\* ------------------------------------------------------------ kill: claims
\* The pids > 0 the discovery of line 42 names on the port.
SnapshotPids ==
    {listeners[i].PID : i \in {j \in DOMAIN listeners :
                                  listeners[j].Port = KillPort /\ listeners[j].PID > 0}}

Escalated == \E i \in DOMAIN sent : sent[i].esc

AllPollsListening == \A i \in DOMAIN polls : polls[i].listening

\* The time of the last signal of the signal phase.
SignalPhaseEnd ==
    LET first == {i \in DOMAIN sent : ~sent[i].esc} IN
    IF first = {} THEN 0 ELSE sent[CHOOSE i \in first : \A j \in first : j <= i].at

\* Some resolved target has a recorded (non-empty) user other than the caller's
\* name, which user.Current reported.
SomeTargetForeign ==
    /\ current # NoUser
    /\ \E i \in DOMAIN targets : targets[i].User # "" /\ targets[i].User # current

\* C1: without --force, when the calling user is known and some resolved
\* target's recorded user differs from it, kill has ended with a nonzero exit
\* code and no payload, and no signal was sent to any target, the caller's
\* own included.
C1_DenialIsAtomic ==
    (~killForce /\ SomeTargetForeign) =>
        /\ sent = <<>>
        /\ pending = {}
        /\ kpc = "done" /\ exit # 0 /\ report = NoReport

\* C1 witness: a denied kill whose targets include one the caller owns.
C1_Witness ==
    /\ ~killForce /\ SomeTargetForeign /\ kpc = "done"
    /\ \E i \in DOMAIN targets : targets[i].User = current

\* C2 as claimed: without --force every signal goes to a target whose recorded
\* user equals the name of the calling user; a target with no recorded user,
\* or a run with no known calling user, gets no signal.
C2_SignalOnlyToOwned ==
    ~killForce =>
        \A i \in DOMAIN sent :
            /\ current # NoUser
            /\ \E k \in DOMAIN targets :
                  targets[k].PID = sent[i].pid /\ targets[k].User = current

\* C3: every signal goes to a pid > 0 that the discovery of line 42 named on
\* the port, and a finished escalation has signaled exactly those pids,
\* whatever listens on the port by then.
C3_SignalsStayInSnapshot ==
    /\ \A i \in DOMAIN sent : sent[i].pid > 0 /\ sent[i].pid \in SnapshotPids
    /\ (kpc = "done" /\ Escalated) =>
          {sent[i].pid : i \in {j \in DOMAIN sent : sent[j].esc}} = SnapshotPids

\* C3 witness: an escalation has finished while a process that was not in the
\* snapshot listens on the port.
C3_Witness ==
    /\ kpc = "done" /\ Escalated
    /\ \E i \in DOMAIN socks :
          socks[i].port = KillPort /\ socks[i].pid > 0 /\ socks[i].pid \notin SnapshotPids

\* C4: with --dry-run no signal is sent or delivered; a kill that found
\* targets and was not refused reports them with status dry-run; and with no
\* external event every record of the discovery of line 42 is a record of a
\* discovery made now.
C4_DryRunSendsNothing ==
    killDryRun =>
        /\ sent = <<>> /\ pending = {} /\ polls = <<>>
        /\ (kpc = "done" /\ exit = 0 /\ SnapshotPids # {}) =>
              /\ report.status = "dry-run"
              /\ report.targets = ResolveTargets(listeners, KillPort)
        /\ (kpc = "done" /\ extEvents = 0) =>
              \A i \in DOMAIN listeners :
                  \E j \in DOMAIN ListTCPListeners : ListTCPListeners[j] = listeners[i]

\* C4 witness: a dry run that reported two targets.
C4_Witness ==
    /\ killDryRun /\ kpc = "done" /\ report.status = "dry-run"
    /\ Len(report.targets) >= 2

\* C5: with timeout > 0 and a signal other than KILL, no SIGKILL is sent before
\* the timeout has elapsed since the signal phase, and a kill that completed
\* with every poll finding the port listening has sent each original target
\* exactly one SIGKILL.
C5_EscalationOnceAfterTimeout ==
    (killTimeout > 0 /\ killSignal # "KILL") =>
        /\ \A i \in DOMAIN sent :
              sent[i].sig = "KILL" => sent[i].at >= SignalPhaseEnd + killTimeout
        /\ (kpc = "done" /\ exit = 0 /\ report.status = "signaled" /\ AllPollsListening) =>
              \A p \in SnapshotPids :
                  Cardinality({i \in DOMAIN sent : sent[i].pid = p /\ sent[i].sig = "KILL"}) = 1

\* C5 witness: a completed escalation to two targets after two polls.
C5_Witness ==
    /\ killTimeout > 0 /\ killSignal # "KILL"
    /\ kpc = "done" /\ exit = 0 /\ AllPollsListening /\ Len(polls) >= 2
    /\ Cardinality(SnapshotPids) >= 2 /\ Escalated

\* C6: an escalation SIGKILL is sent only with timeout > 0, a signal other than
\* KILL and every poll up to the deadline finding the port listening, and a
\* kill that completes under these conditions has escalated; with timeout 0 or
\* signal KILL no poll is made and no pid is signaled twice; a poll that finds
\* the port free ends the command with status signaled and no SIGKILL.
C6_EscalationIff ==
    /\ Escalated =>
          /\ killTimeout > 0 /\ killSignal # "KILL"
          /\ polls # <<>> /\ AllPollsListening
          /\ polls[Len(polls)].at >= SignalPhaseEnd + killTimeout
    /\ (/\ kpc = "done" /\ exit = 0 /\ report.status = "signaled"
        /\ killTimeout > 0 /\ killSignal # "KILL" /\ AllPollsListening) => Escalated
    /\ (killTimeout = 0 \/ killSignal = "KILL") =>
          /\ polls = <<>>
          /\ \A i, j \in DOMAIN sent : sent[i].pid = sent[j].pid => i = j
    /\ (polls # <<>> /\ ~polls[Len(polls)].listening) =>
          /\ kpc = "done" /\ exit = 0 /\ report.status = "signaled"
          /\ \A i \in DOMAIN sent : sent[i].sig # "KILL"

\* C6 witness: a poll found the port free after one that found it listening.
C6_Witness ==
    /\ Len(polls) >= 2 /\ ~polls[Len(polls)].listening
    /\ kpc = "done" /\ report.status = "signaled"

\* The syscall.Kill calls of the signal phase.
SignalPhase == SelectSeq(sent, LAMBDA x : ~x.esc)

C16_NoTargetsIsIdle ==
    (kpc = "done" /\ ~DiscoveryFails /\ ResolveTargets(listeners, KillPort) = <<>>) =>
        /\ report = [status |-> "idle", signaled |-> 0]
        /\ exit = 0
        /\ sent = <<>>

\* C16 witness: an idle kill, asked for a dry run, whose discovery listed a
\* socket on the port with no pid.
C16_Witness ==
    /\ kpc = "done" /\ report.status = "idle" /\ killDryRun
    /\ HasTCPListenerOnPort(listeners, KillPort)

\* C17: a kill that completes reports a status among idle, dry-run and
\* signaled; with status signaled it reports the count of signaled targets
\* and the final signal used, which is KILL when the escalation fired, and
\* then it reports the escalation.
C17_ReportsFinalSignal ==
    (kpc = "done" /\ exit = 0) =>
        /\ report.status \in {"idle", "dry-run", "signaled"}
        /\ report.status = "signaled" =>
              /\ report.signaled = Cardinality({k \in DOMAIN sent : ~sent[k].esc /\ sent[k].res = "ok"})
              /\ report.signal = (IF Escalated THEN "KILL" ELSE killSignal)
              /\ Escalated => "escalated" \in DOMAIN report

\* ------------------------------------------------------- allocator: claims
\* The candidates in the order the claims state: the preferred ports that are
\* port numbers, as given, then the range ascending.
ExpectedOrder ==
    SelectSeq(prefer, LAMBDA p : p >= 1 /\ p <= MaxPortNumber)
        \o [k \in 1..(r.End - r.Start + 1) |-> r.Start + k - 1]

\* The allocator call of invocation i has returned.
Returned(i) == apc[i] \in {"child", "done"}

\* The failed attempts of invocation i are the first candidates, in order, and
\* each failed the step it names, which a pick has only one of.
FailedPrefix(i) ==
    /\ Len(attempts[i]) <= Len(ExpectedOrder)
    /\ \A k \in DOMAIN attempts[i] :
          /\ attempts[i][k].port = ExpectedOrder[k]
          /\ ~attempts[i][k].free
          /\ kind[i] = "pick" => attempts[i][k].why = "bind"

\* C7: two runs whose children are running at the same time, between the
\* return of the allocator and the exit of the child, never have the same
\* port, whatever the interleaving of their lock and probe steps.
C7_RunsNeverShareAPort ==
    \A i, j \in Invs :
        (i # j /\ apc[i] = "child" /\ apc[j] = "child") => childPort[i] # childPort[j]

\* C7 witness: two runs have both handed a port to a child that is running,
\* and one of them lost the race for an earlier candidate.
C7_Witness ==
    \E i, j \in Invs :
        /\ i # j /\ apc[i] = "child" /\ apc[j] = "child"
        /\ \E k \in DOMAIN attempts[j] :
              attempts[j][k].port = childPort[i] /\ attempts[j][k].why = "lock"

\* C8: no two concurrent allocator calls select the same port, a pick running
\* concurrently with a run included: while the child of a run is running on
\* the port the run selected, no other call, pick or run, returns that port.
C8_NoCallSelectsAPortInUse ==
    [][\A i, j \in Invs :
          (/\ i # j /\ apc[i] = "child" /\ apc'[i] = "child"
           /\ result[j] = 0 /\ result'[j] # 0) => result'[j] # childPort[i]]_vars

\* C9: the port the allocator returns is the first candidate, of the preferred
\* ports in the given order and then the range ascending, that did not fail:
\* every candidate before it was tried, in that order, and failed its lock
\* acquisition (run only) or its bind probe.
C9_FirstAvailableCandidate ==
    \A i \in Invs :
        result[i] # 0 =>
            /\ FailedPrefix(i)
            /\ Len(attempts[i]) < Len(ExpectedOrder)
            /\ result[i] = ExpectedOrder[Len(attempts[i]) + 1]

\* C9 witness: a call returned a port of the range after a preferred port and
\* a port of the range had failed.
C9_Witness ==
    \E i \in Invs :
        /\ result[i] # 0 /\ cur[i].ph = "range"
        /\ Len(attempts[i]) >= 2 /\ attempts[i][1].port = prefer[1]
        /\ Len(prefer) = MaxPrefer

\* C10: a call that has returned failed with the no-free-port error exactly
\* when every candidate of the preference list and of the range failed its
\* lock acquisition or its bind probe; the failed invocation returned no port,
\* holds no lock and has no probe socket open.
C10_NoFreePortIff ==
    \A i \in Invs :
        Returned(i) =>
            /\ (err[i] = "nofree") <=>
                  (FailedPrefix(i) /\ Len(attempts[i]) = Len(ExpectedOrder))
            /\ err[i] = "nofree" =>
                  /\ result[i] = 0
                  /\ \A p \in Ports : lockHolder[p] # i /\ probeSock[p] # i

\* C10 witness: a run failed after a lock acquisition and a bind probe had
\* both failed.
C10_Witness ==
    \E i \in Invs :
        /\ apc[i] = "done" /\ err[i] = "nofree" /\ kind[i] = "run"
        /\ \E k \in DOMAIN attempts[i] : attempts[i][k].why = "lock"
        /\ \E k \in DOMAIN attempts[i] : attempts[i][k].why = "bind"

\* The most attempts an allocator call can make.
MaxAttempts == Len(prefer) + (r.End - r.Start + 1)

\* C11: from the return of the allocator until its child has exited a run
\* holds the lock of the port it chose, and once the child has exited,
\* with whatever exit code, the run holds no lock.
C11_LockHeldWhileChildRuns ==
    \A i \in Invs :
        /\ apc[i] = "child" => (result[i] # 0 /\ lockHolder[result[i]] = i)
        /\ (apc[i] = "done" /\ childCode[i] # -1) => \A p \in Ports : lockHolder[p] # i

\* C11 witness: a run whose child failed has released the lock, and another
\* run, which found the lock held while that child ran, has its own child.
C11_Witness ==
    \E i, j \in Invs :
        /\ apc[i] = "done" /\ childCode[i] = 1 /\ result[i] # 0
        /\ apc[j] = "child"
        /\ \E k \in DOMAIN attempts[j] :
              attempts[j][k].port = result[i] /\ attempts[j][k].why = "lock"

C13_BoundedAttemptsNoWaiting ==
    \A i \in Invs :
        /\ apc[i] = "lock" => ENABLED LockTry(i)
        /\ Len(attempts[i]) <= MaxAttempts
        /\ apc[i] \in {"lock", "listen", "close"} => Len(attempts[i]) < MaxAttempts
        /\ Len(attempts[i]) = MaxAttempts => (apc[i] = "done" /\ err[i] = "nofree")

\* C13 witness: a run has returned after every candidate failed, a lock that
\* is never released among the failures.
C13_Witness ==
    \E i \in Invs :
        /\ kind[i] = "run" /\ apc[i] = "done" /\ Len(attempts[i]) = MaxAttempts
        /\ Len(attempts[i]) >= 2
        /\ \E k \in DOMAIN attempts[i] :
              attempts[i][k].why = "lock" /\ attempts[i][k].port \in extLocked

\* C29: when the child of a run has exited, run exits with the child's exit
\* code (refuted for a code above 1: every error of RunE exits 1).
C29_RunExitsWithChildCode ==
    \A i \in Invs :
        (apc[i] = "done" /\ childCode[i] # -1) => ExitCodeOf(i) = childCode[i]

\* The candidate invocation i has in hand while it locks, probes or closes.
InHand(i) == apc[i] \in {"lock", "listen", "close"}

DiscoverySpawns == SelectSeq(spawned, LAMBDA t : t \in {"lsof", "ss"})

Unenriched(l) ==
    l.PPID = 0 /\ l.CommandLine = <<>> /\ l.Executable = <<>> /\ l.CWD = <<>>

PortPid(l) == <<l.Port, l.PID>>

\* C27: the step of --unique leaves no two records with the same (port,
\* pid), keeps every (port, pid) it was given, keeps of each the first
\* record that had it, and done again changes nothing.
C27_UniqueKeepsFirstOfEachPair ==
    [][(lpc = "unique" /\ listUnique) =>
          /\ \A i, j \in DOMAIN listed' : PortPid(listed'[i]) = PortPid(listed'[j]) => i = j
          /\ {PortPid(listed[i]) : i \in DOMAIN listed}
                = {PortPid(listed'[k]) : k \in DOMAIN listed'}
          /\ \A k \in DOMAIN listed' :
                \E i \in DOMAIN listed :
                    /\ listed[i] = listed'[k]
                    /\ \A j \in 1..(i - 1) : PortPid(listed[j]) # PortPid(listed[i])
          /\ Unique(listed') = listed'
    ]_vars

\* --unique has dropped the second record of a (port, pid), and the record
\* it kept is the first one the discovery gave.
C27_Witness ==
    /\ lpc = "sort" /\ listUnique /\ listPort = 0 /\ listFilter = <<>>
    /\ Len(toolRecs) = 2 /\ Len(listed) = 1
    /\ toolRecs[1] # toolRecs[2] /\ listed[1] = toolRecs[1]

\* C28: the sort step leaves the records it was given in an order of their
\* indices that is ascending by port and then by pid, and in which records
\* of the same port and pid keep the order they had (refuted: sort.Slice may
\* exchange them).
C28_SortIsStable ==
    [][lpc = "sort" =>
          \E f \in Orders(Len(listed)) :
              /\ listed' = [i \in DOMAIN listed |-> listed[f[i]]]
              /\ \A i, j \in DOMAIN listed : i < j =>
                    \/ listed'[i].Port < listed'[j].Port
                    \/ listed'[i].Port = listed'[j].Port /\ listed'[i].PID < listed'[j].PID
                    \/ PortPid(listed'[i]) = PortPid(listed'[j]) /\ f[i] < f[j]
    ]_vars

\* The executable path or the command line of the process of a record
\* holds the filter text, and the operating system tells them.
ProcessMatches(l, filter) ==
    /\ l.PID > 0 /\ procState[l.PID] = "ok" /\ "ps" \in inPath
    /\ \/ Contains(ToLower(ExeOf(l.PID)), filter)
       \/ Contains(ToLower(CmdLineOf(l.PID)), filter)

\* C22: the filter step drops no record of a process whose executable path
\* or command line holds the filter text, with --verbose or without
\* (refuted: with --verbose the records are enriched after the filter only).
C22_FilterSeesEnrichedRecords ==
    [][(lpc = "filter" /\ listFilter # <<>>) =>
          \A i \in DOMAIN listed :
              ProcessMatches(listed[i], ToLower(listFilter)) =>
                  \E k \in DOMAIN listed' : PortPid(listed'[k]) = PortPid(listed[i])
                                            /\ listed'[k].Address = listed[i].Address
    ]_vars

\* -------------------------------------------------------- parsers: claims
\* The token of a line that holds the local address: for lsof the last
\* field, the state (LISTEN) apart; for ss the field extractSSLocal names.
LocalAddressAt(adapter, fields) ==
    IF adapter = "ss" THEN extractSSLocal(fields)
    ELSE LET c == {i \in DOMAIN fields : fields[i] # TokLISTEN} IN
         IF c = {} THEN 0 ELSE CHOOSE i \in c : \A j \in c : i >= j

\* The token ends in a colon and a decimal number of 1..65535 after it.
EndsInPort(t, n) ==
    \E k \in DOMAIN t :
        /\ t[k] = ":" /\ k < Len(t)
        /\ \A j \in (k + 1)..Len(t) : IsDigit(t[j])
        /\ n = DigitsValue(SubSeq(t, k + 1, Len(t)))
        /\ n \in 1..MaxPortNumber

\* C23: a line gives a record only if its local-address token ends in a
\* decimal port of 1..65535, and the port of the record is that number
\* (refuted for lsof, which looks at the fields before the address when the
\* address has no such port).
C23_RecordOnlyForNumericPort ==
    (ppc = "parsed" /\ Len(toolOut) = 1 /\ parsed.recs # <<>>) =>
        LET fields == toolOut[1].fields
            k == LocalAddressAt(parsed.adapter, fields)
        IN k # 0 /\ EndsInPort(fields[k], parsed.recs[1].Port)

\* The lines of a listing that give a record when parsed alone, the header
\* of lsof apart.
Acceptable(adapter, lines) ==
    {k \in DOMAIN lines :
        /\ ~(adapter = "lsof" /\ k = 1 /\ Len(lines[k].fields) >= 2
              /\ lines[k].fields[1] = TokCOMMAND)
        /\ ParseLine(adapter, lines[k].fields).ok}

\* C24: the parser returns no error, and its records are the records of the
\* acceptable lines, one each and in their order (refuted by a line longer
\* than the scanner holds: the parse fails and returns no record).
C24_ParseNeverFails ==
    ppc = "parsed" =>
        /\ parsed.ok
        /\ Len(parsed.recs) = Cardinality(Acceptable(parsed.adapter, toolOut))
        /\ \A i, j \in DOMAIN parsed.recs : i < j =>
              \E a, b \in Acceptable(parsed.adapter, toolOut) :
                  /\ a < b
                  /\ parsed.recs[i] = ParseLine(parsed.adapter, toolOut[a].fields)
                  /\ parsed.recs[j] = ParseLine(parsed.adapter, toolOut[b].fields)

\* --------------------------------------------------- command line: claims
\* The text writes an integer: digits, after a sign or not.
WritesInteger(t) ==
    \E k \in 0..1 :
        /\ Len(t) > k
        /\ k = 1 => t[1] \in {"+", "-"}
        /\ \A j \in (k + 1)..Len(t) : IsDigit(t[j])

\* The integer the text writes.
IntegerOf(t) ==
    IF t[1] = "-" THEN 0 - DigitsValue(Tail(t))
    ELSE IF t[1] = "+" THEN DigitsValue(Tail(t))
    ELSE DigitsValue(t)

\* The text names no port of 1..65535.
MalformedPort(t) == ~(WritesInteger(t) /\ IntegerOf(t) \in 1..MaxPortNumber)

\* The same letters, in any case.
SameLetters(t, name) ==
    /\ Len(t) = Len(name)
    /\ \A k \in DOMAIN t :
          \/ t[k] = name[k]
          \/ \E j \in DOMAIN UpperChars : UpperChars[j] = name[k] /\ LowerChars[j] = t[k]

\* The text, the blanks around it apart, is none of TERM, INT and KILL, with
\* SIG before it or not, in any letter case.
MalformedSignal(t) ==
    ~\E name \in {<<"T", "E", "R", "M">>, <<"I", "N", "T">>, <<"K", "I", "L", "L">>, <<"S", "I", "G", "T", "E", "R", "M">>, <<"S", "I", "G", "I", "N", "T">>, <<"S", "I", "G", "K", "I", "L", "L">>},
        a, b \in 0..Len(t) :
        /\ a < b
        /\ \A k \in (1..a) \cup ((b + 1)..Len(t)) : t[k] \in SpaceChars
        /\ SameLetters(SubSeq(t, a + 1, b), name)

\* The text with the blanks around it removed.
Unpadded(t) ==
    LET inked == {k \in DOMAIN t : t[k] \notin SpaceChars} IN
    IF inked = {} THEN <<>>
    ELSE SubSeq(t, CHOOSE k \in inked : \A j \in inked : k <= j,
                   CHOOSE k \in inked : \A j \in inked : k >= j)

\* The text is not start-end with 1 <= start <= end <= 65535.
MalformedRange(t) ==
    ~\E k \in DOMAIN t :
        /\ t[k] = "-"
        /\ LET a == Unpadded(SubSeq(t, 1, k - 1))
               b == Unpadded(SubSeq(t, k + 1, Len(t)))
           IN /\ WritesInteger(a) /\ WritesInteger(b)
              /\ 1 <= IntegerOf(a) /\ IntegerOf(a) <= IntegerOf(b)
              /\ IntegerOf(b) <= MaxPortNumber

\* The command line that the claim says is rejected.
Malformed ==
    \/ argv.cmd \in {"kill", "check"} /\ MalformedPort(argv.port)
    \/ argv.cmd = "kill" /\ MalformedSignal(argv.signal)
    \/ argv.cmd \in {"run", "pick"} /\ MalformedRange(argv.range)
    \/ argv.cmd = "run" /\ argv.dash = "absent"

\* No discovery was made, no signal sent, no port probed, no lock file
\* opened or locked, and no child started.
NothingTouched ==
    /\ kpc \in {"args", "done"} /\ listeners = <<>> /\ sent = <<>> /\ polls = <<>>
    /\ cpc \in {"off", "args", "done"} /\ checkPolls = <<>>
    /\ \A i \in Invs : apc[i] \in {"off", "args", "done"} /\ attempts[i] = <<>>
                          /\ childPort[i] = 0 /\ result[i] = 0
    /\ \A p \in Ports : lockHolder[p] = 0 /\ probeSock[p] = 0
    /\ lockFile = {}

\* The command has not looked at its arguments yet.
NotStarted ==
    \/ argv.cmd = "kill" /\ kpc = "args"
    \/ argv.cmd = "check" /\ cpc = "args"
    \/ argv.cmd \in {"run", "pick"} /\ apc[1] = "args"

\* The command has ended with an exit code that is not 0.
EndedNonzero ==
    /\ argv.cmd = "kill" => (kpc = "done" /\ exit > 0)
    /\ argv.cmd = "check" => (cpc = "done" /\ checkExit > 0)
    /\ argv.cmd \in {"run", "pick"} => (apc[1] = "done" /\ err[1] # "")

ListedOnCheckPort == \E i \in DOMAIN socks : socks[i].port = CheckPort

\* C20: when check has ended, it has exited 2 exactly when its port argument
\* is invalid or the discovery failed, 1 exactly when the discovery reported
\* one listener or more on the port, whatever the pid, and 0 exactly when
\* the discovery reported none.
C20_CheckExitCode ==
    cpc = "done" =>
        LET answered == ParsePort(argv.port).ok /\ ~DiscoveryFails IN
        /\ checkExit = 2 <=> ~answered
        /\ checkExit = 1 <=> (answered /\ ListedOnCheckPort)
        /\ checkExit = 0 <=> (answered /\ ~ListedOnCheckPort)

\* check has answered in-use for a port whose only listener has no pid reported.
C20_Witness ==
    /\ cpc = "done" /\ checkExit = 1
    /\ \A i \in DOMAIN socks : socks[i].port = CheckPort => socks[i].pid = 0

\* C19: when kill with the default signal and a positive timeout has reported
\* signaled for a port that one process owned by the caller listened on, and
\* nothing else happened to the port, the check that follows answers free
\* (refuted after an escalation: kill returns when SIGKILL is sent, not when
\* the process is gone).
C19_CheckAfterKillIsFree ==
    ( /\ cpc = "done"
      /\ report.status = "signaled"
      /\ killSignal = "TERM" /\ killTimeout > 0
      /\ current = Caller
      /\ Len(targets) = 1 /\ OwnerOf(targets[1].PID) = Caller
      /\ \A i \in DOMAIN listeners :
            listeners[i].Port = KillPort => listeners[i].PID = targets[1].PID
      /\ extEvents = 0 )
    => checkExit = 0

\* What check --wait has done so far is what waitForPortFree allows: every
\* poll before the last found a listener and was made before the deadline had
\* passed; free is answered on a last poll that found no listener; in-use is
\* answered when every poll found a listener and the deadline has passed.
WaitAnswersInOrder ==
    checkWait > 0 =>
        /\ \A k \in 1..(Len(checkPolls) - 1) :
              checkPolls[k].inUse /\ checkPolls[k].at <= checkDeadline
        /\ (cpc = "done" /\ checkExit = 0) =>
              (checkPolls # <<>> /\ ~checkPolls[Len(checkPolls)].inUse)
        /\ (cpc = "done" /\ checkExit = 1) =>
              /\ \A k \in DOMAIN checkPolls : checkPolls[k].inUse
              /\ checkPolls # <<>> /\ checkPolls[Len(checkPolls)].at > checkDeadline

\* C21: check --wait D with D > 0 answers free at the first poll that finds
\* no listener, answers in-use only when every poll found one and the
\* deadline has passed, polls no more after a poll past the deadline, and
\* ends (the last is refuted by a discovery tool that never exits).
C21_WaitAnswersAndEnds ==
    /\ []WaitAnswersInOrder
    /\ [](checkWait > 0 => <>(cpc = "done"))

\* C14: check ends, whatever the discovery tool does (the claim as the
\* specification states it; a discovery tool that never exits refutes it).
C14_CheckTerminates == <>(cpc = "done")

\* ------------------------------------------------------ --range: claims
\* The invocation of run or pick has parsed its --range.
RangeParsed == argv.cmd \in {"run", "pick"} /\ apc[1] # "args" /\ err[1] # "usage"

\* The range is the one the text writes: start before a dash, end after it.
RangeWrittenBy(t, rg) ==
    \E k \in DOMAIN t :
        /\ t[k] = "-"
        /\ LET a == Unpadded(SubSeq(t, 1, k - 1))
               b == Unpadded(SubSeq(t, k + 1, Len(t)))
           IN /\ WritesInteger(a) /\ WritesInteger(b)
              /\ rg.Start = IntegerOf(a) /\ rg.End = IntegerOf(b)

\* C32: --range is rejected exactly if its text is not start-end with
\* 1 <= start <= end <= 65535; otherwise the range is that start and that
\* end, so start <= end and both are in 1..65535.
C32_ParseRangeIff ==
    RangeParsed =>
        /\ err[1] = "range" <=> MalformedRange(argv.range)
        /\ err[1] # "range" =>
              /\ RangeWrittenBy(argv.range, r)
              /\ 1 <= r.Start /\ r.Start <= r.End /\ r.End <= MaxPortNumber

\* C32 witness: a range typed with blanks around its numbers was accepted.
C32_Witness ==
    /\ RangeParsed /\ err[1] # "range"
    /\ argv.range = <<" ", "1", " ", "-", " ", "2", " ">>
    /\ r = [Start |-> 1, End |-> 2]

\* ---------------------------------------------------- allocator: claims 2
\* C33: a pick whose first preferred port is 0 returns a port the operating
\* system assigned, so it returns a port of 1..65535 whatever is bound in
\* the range (refuted: 0 is skipped like any value below 1, and the pick
\* fails when no port of the range is free).
C33_PreferZeroIsEphemeral ==
    \A i \in Invs :
        (kind[i] = "pick" /\ apc[i] = "done" /\ prefer # <<>> /\ prefer[1] = 0) =>
            /\ err[i] = ""
            /\ result[i] \in 1..MaxPortNumber

\* The locks invocation i holds.
LocksOf(i) == {p \in Ports : lockHolder[p] = i}

\* The ports whose flock a run has been granted on a handle it still has:
\* the candidate it probes, or the port it returned.
Granted(i) ==
    IF kind[i] = "run" /\ apc[i] \in {"listen", "close"} THEN {CandPort(cur[i])}
    ELSE IF kind[i] = "run" /\ apc[i] = "child" THEN {result[i]}
    ELSE {}

\* C36: a run probes a candidate, from net.Listen to the close of the probe
\* socket, only while it holds the lock of that candidate; and when it turns
\* to the next candidate, or returns with no port, it holds no lock.
C36_ProbeUnderLock ==
    \A i \in Invs :
        kind[i] = "run" =>
            /\ apc[i] \in {"listen", "close"} => lockHolder[CandPort(cur[i])] = i
            /\ \A p \in Ports : probeSock[p] = i => lockHolder[p] = i
            /\ apc[i] = "lock" => LocksOf(i) = {}
            /\ (apc[i] = "done" /\ err[i] = "nofree") => LocksOf(i) = {}

\* C36 witness: a run probes its second candidate under its lock after the
\* probe of the first, which it had locked, failed.
C36_Witness ==
    \E i \in Invs :
        /\ kind[i] = "run" /\ apc[i] = "close"
        /\ Len(attempts[i]) = 1 /\ attempts[i][1].why = "bind"
        /\ probeSock[CandPort(cur[i])] = i
        /\ attempts[i][1].port \in lockFile

\* C37: an invocation holds at most one lock at any time; no lock is granted
\* to two invocations at once, those outside the model included; and a run
\* whose allocator call has returned a port holds the lock of that port and
\* no other.
C37_OneLockPerCallAndPort ==
    /\ \A i \in Invs : Cardinality(LocksOf(i)) <= 1
    /\ \A i \in Invs : LocksOf(i) = Granted(i)
    /\ \A i, j \in Invs : i # j => Granted(i) \cap Granted(j) = {}
    /\ \A i \in Invs : Granted(i) \cap extLocked = {}
    /\ \A i \in Invs : apc[i] = "child" => LocksOf(i) = {result[i]}

\* C37 witness: a run returned its second candidate after the probe of the
\* first failed under its lock, and holds the lock of the second only.
C37_Witness ==
    \E i \in Invs :
        /\ apc[i] = "child" /\ Len(attempts[i]) = 1
        /\ attempts[i][1].why = "bind" /\ attempts[i][1].port # result[i]
        /\ LocksOf(i) = {result[i]}

\* ---------------------------------------------------------- kill: claims 2
\* C35: a kill that has left its signal loop has sent the chosen signal to
\* every resolved target, also when the signal to an earlier target failed
\* for another reason than the process having exited (refuted: such a
\* failure ends the command at once, and the later targets get no signal).
C35_EveryTargetIsSignaled ==
    (kpc \in {"wait", "escalate", "done"} /\ SignalPhase # <<>>) =>
        \A k \in DOMAIN targets :
            \E j \in DOMAIN SignalPhase :
                SignalPhase[j].pid = targets[k].PID /\ SignalPhase[j].sig = killSignal

\* C38: a kill that reported status idle ran a discovery that listed no
\* listener on the port, so that check, on the same listing, answers free
\* (refuted: a listener whose pid the tool did not report is no target, and
\* kill is idle while check finds the port in use).
C38_IdleMeansFree ==
    (kpc = "done" /\ exit = 0 /\ report.status = "idle") =>
        /\ ~HasTCPListenerOnPort(listeners, KillPort)
        /\ CheckExitCode(HasTCPListenerOnPort(listeners, KillPort)) = 0

\* ------------------------------------------------------ parsers: claims 2
\* The pids a token of ss names: the number after each pid= in it.
PidsNamedIn(t) ==
    {DigitsValue(SubSeq(t, x[1] + 4, x[2])) :
        x \in {y \in (DOMAIN t) \X (DOMAIN t) :
                  /\ y[1] + 4 <= y[2]
                  /\ SubSeq(t, y[1], y[1] + 3) = TokPid
                  /\ \A j \in (y[1] + 4)..y[2] : IsDigit(t[j])
                  /\ y[2] = Len(t) \/ ~IsDigit(t[y[2] + 1])}}

\* The pids a line names: the PID column of lsof, every pid= of ss.
PidsOfLine(adapter, fields) ==
    IF adapter = "lsof"
    THEN (IF Atoi(fields[2]).ok THEN {Atoi(fields[2]).val} ELSE {})
    ELSE UNION {PidsNamedIn(fields[j]) : j \in DOMAIN fields}

\* The pids > 0 the output names as listening on the port.
NamedOnPort(adapter, lines, port) ==
    {pid \in UNION {PidsOfLine(adapter, lines[k].fields) :
                       k \in {a \in Acceptable(adapter, lines) :
                                ParseLine(adapter, lines[a].fields).Port = port}} :
        pid > 0}

\* C34: the targets kill resolves are the pids > 0 the tool's output names
\* on the port, each once (refuted for a line of ss that names several
\* processes: the record has the first pid only).
C34_TargetsAreTheNamedPids ==
    ppc = "resolved" =>
        /\ {targets[k].PID : k \in DOMAIN targets} = NamedOnPort(parsed.adapter, toolOut, KillPort)
        /\ \A a, b \in DOMAIN targets : a # b => targets[a].PID # targets[b].PID

\* --------------------------------------------------------- list: claims 2
\* The fields an enrichment fills are the same in two records.
SameEnrichment(a, b) ==
    /\ a.PPID = b.PPID /\ a.CommandLine = b.CommandLine
    /\ a.Executable = b.Executable /\ a.CWD = b.CWD

\* C39: in what list --verbose writes, after its enrichment, the records of
\* one pid > 0 have the same parent pid, command line, executable path and
\* working directory (refuted: the enrichment fills the first record of
\* each pid and leaves the others empty).
C39_RecordsOfAPidEnrichedAlike ==
    (lpc = "done" /\ listVerbose /\ listErr = "") =>
        \A i, j \in DOMAIN listOut :
            (listOut[i].PID > 0 /\ listOut[i].PID = listOut[j].PID)
                => SameEnrichment(listOut[i], listOut[j])

\* ------------------------------------------------- standard output: claims
\* The invocation inv of command cmd has returned.
CmdEnded(cmd, inv) ==
    CASE cmd = "kill" -> kpc = "done"
      [] cmd \in {"list", "who"} -> lpc = "done"
      [] cmd = "pick" -> apc[inv] = "done"

\* The invocation inv of command cmd has returned an error.
CmdFailed(cmd, inv) ==
    CASE cmd = "kill" -> kpc = "done" /\ exit # 0
      [] cmd \in {"list", "who"} -> lpc = "done" /\ listErr # ""
      [] cmd = "pick" -> apc[inv] = "done" /\ err[inv] # ""

\* The writes to standard output that are JSON, whole or in part.
JSONItems == {k \in DOMAIN written : written[k].kind = "json"}

\* C31 as stated: a command of kill, who, list and pick that returned an
\* error has written no JSON, whole or in part (refuted: the write of the
\* payload can itself fail after a part of it went out, and that error is
\* returned).
C31_NoJSONOnErrorPaths ==
    \A k \in JSONItems : ~CmdFailed(written[k].cmd, written[k].inv)

\* C31, amended: a JSON payload is written only by the last action of a
\* path: the command has returned and has written nothing after it; and a
\* command that returned an error has written JSON only if that write itself
\* failed, and then a part of the payload only: every whole payload is one
\* of a successful path.
C31_JSONIsLastAndWholeOnSuccess ==
    \A k \in JSONItems :
        LET c == written[k].cmd
            i == written[k].inv
        IN /\ CmdEnded(c, i)
           /\ \A j \in DOMAIN written :
                 (j > k) => ~(written[j].cmd = c /\ written[j].inv = i)
           /\ CmdFailed(c, i) <=> ~written[k].whole
           /\ (CmdFailed(c, i) /\ c \in {"list", "who"}) => listErr = "write"
           /\ (CmdFailed(c, i) /\ c = "pick") => err[i] = "write"

\* A kill with --json signalled its target, the write of its payload failed
\* after a part of it, and kill returned the error.
C31_Witness ==
    /\ jsonOutput /\ argv.cmd = "kill" /\ kpc = "done" /\ exit = 1 /\ signaled > 0
    /\ \E k \in JSONItems : written[k].cmd = "kill" /\ ~written[k].whole

\* C40: with --json, everything kill writes to standard output is JSON, and
\* one payload at most (refuted: the progress message of each target and
\* the escalation message are written to standard output with --json too).
C40_KillWritesOnlyThePayload ==
    (jsonOutput /\ argv.cmd = "kill") =>
        /\ \A k \in DOMAIN written : written[k].kind = "json"
        /\ Cardinality(JSONItems) <= 1

============================================================================
